---- MODULE Spec2Model ----
(***************************************************************************)
(* Podcastwise: transcript-source resolution and matching.                 *)
(*                                                                         *)
(* Strings are TLA+ strings; a character is a string of length 1.  The     *)
(* regular expressions of the source are translated by hand into matchers  *)
(* over character positions (1-based; a position Len(s)+1 is the end).     *)
(* Titles are assumed to hold no line breaks, so '.' matches every         *)
(* character and '$' matches only at the end.                              *)
(***************************************************************************)
EXTENDS Integers, Sequences, FiniteSets, TLC

(***************************************************************************)
(* Characters and the str / re primitives the source relies on             *)
(***************************************************************************)
UpperChars == {"A","B","C","D","E","F","G","H","I","J","K","L","M",
               "N","O","P","Q","R","S","T","U","V","W","X","Y","Z"}

LowerChars == {"a","b","c","d","e","f","g","h","i","j","k","l","m",
               "n","o","p","q","r","s","t","u","v","w","x","y","z"}

DigitChars == {"0","1","2","3","4","5","6","7","8","9"}

\* U+2013 (en dash) cannot be written in a module; "~" stands for it.
EnDash == "~"

\* \s of the re module, restricted to the ASCII blanks
SpaceChars == {" ", "\t"}

\* \w of the re module (ASCII part)
WordChars == UpperChars \cup LowerChars \cup DigitChars \cup {"_"}

LetterChars == UpperChars \cup LowerChars

LowerOf ==
    "A" :> "a" @@ "B" :> "b" @@ "C" :> "c" @@ "D" :> "d" @@ "E" :> "e" @@
    "F" :> "f" @@ "G" :> "g" @@ "H" :> "h" @@ "I" :> "i" @@ "J" :> "j" @@
    "K" :> "k" @@ "L" :> "l" @@ "M" :> "m" @@ "N" :> "n" @@ "O" :> "o" @@
    "P" :> "p" @@ "Q" :> "q" @@ "R" :> "r" @@ "S" :> "s" @@ "T" :> "t" @@
    "U" :> "u" @@ "V" :> "v" @@ "W" :> "w" @@ "X" :> "x" @@ "Y" :> "y" @@
    "Z" :> "z"

Min(a, b) == IF a <= b THEN a ELSE b

Max(a, b) == IF a >= b THEN a ELSE b

\* the slice s[a-1:b] of Python: positions a..b, clipped to the string
Sub(s, a, b) ==
    IF a > b \/ a > Len(s) \/ b < 1 THEN ""
    ELSE SubSeq(s, Max(a, 1), Min(b, Len(s)))

\* s[i] as a 1-character string; "" outside the string
Ch(s, i) == Sub(s, i, i)

\* s[i-1:] from position i to the end
Tail2(s, i) == Sub(s, i, Len(s))

\* s[:i-1], the part before position i
Prefix(s, i) == Sub(s, 1, i - 1)

\* str.lower() of s[a..b]; the range is halved to keep the evaluation shallow
RECURSIVE LowerRange(_, _, _)
LowerRange(s, a, b) ==
    IF a > b THEN ""
    ELSE IF a = b
         THEN (IF Ch(s, a) \in UpperChars THEN LowerOf[Ch(s, a)] ELSE Ch(s, a))
         ELSE LowerRange(s, a, (a + b) \div 2) \o LowerRange(s, (a + b) \div 2 + 1, b)

\* str.lower()
ToLower(s) == LowerRange(s, 1, Len(s))

\* sub in s
Contains(sub, s) ==
    \E i \in 1..(Len(s) - Len(sub) + 1) : Sub(s, i, i + Len(sub) - 1) = sub

\* s.startswith(p) at position i
StartsAt(s, i, p) == Sub(s, i, i + Len(p) - 1) = p

\* the position after the longest run of characters of class C starting at i
RECURSIVE SpanEnd(_, _, _)
SpanEnd(s, i, C) ==
    IF i <= Len(s) /\ Ch(s, i) \in C THEN SpanEnd(s, i + 1, C) ELSE i

\* the first position of the run of characters of class C that ends before i
RECURSIVE SpanStart(_, _, _)
SpanStart(s, i, C) ==
    IF i > 1 /\ Ch(s, i - 1) \in C THEN SpanStart(s, i - 1, C) ELSE i

\* str.strip()
Strip(s) ==
    LET a == SpanEnd(s, 1, SpaceChars)
        b == SpanStart(s, Len(s) + 1, SpaceChars)
    IN  IF a > Len(s) THEN "" ELSE Sub(s, a, b - 1)

\* str.split(): the maximal runs of non-blank characters, in order
RECURSIVE SplitFrom(_, _)
SplitFrom(s, i) ==
    LET a == SpanEnd(s, i, SpaceChars)
    IN  IF a > Len(s) THEN << >>
        ELSE LET b == CHOOSE j \in (a + 1)..(Len(s) + 1) :
                          /\ \A k \in a..(j - 1) : Ch(s, k) \notin SpaceChars
                          /\ (j = Len(s) + 1 \/ Ch(s, j) \in SpaceChars)
             IN  << Sub(s, a, b - 1) >> \o SplitFrom(s, b)

Split(s) == SplitFrom(s, 1)

\* \b at position i (between s[i-1] and s[i])
WordBoundary(s, i) == (Ch(s, i - 1) \in WordChars) # (Ch(s, i) \in WordChars)

\* the first position >= i holding character c, or 0
FirstChar(s, i, c) ==
    IF \E k \in i..Len(s) : Ch(s, k) = c
    THEN CHOOSE k \in i..Len(s) : Ch(s, k) = c /\ \A j \in i..(k - 1) : Ch(s, j) # c
    ELSE 0

\* the set of elements of a sequence
Range(f) == { f[i] : i \in DOMAIN f }

\* f as an explicit table: TLC evaluates a function expression anew at every
\* application, a table once
Table(f) == f @@ << >>

(***************************************************************************)
(* Matchers shared by the regular expressions of youtube.py                *)
(***************************************************************************)
\* the delimiter class [:\-<en dash>]
Delims == {":", "-", EnDash}

\* the separator class [&,]
NameSeps == {"&", ","}

\* [A-Z][a-z]+ at position i: the position after the match, or 0
CapWordEnd(s, i) ==
    IF Ch(s, i) \in UpperChars /\ Ch(s, i + 1) \in LowerChars
    THEN SpanEnd(s, i + 1, LowerChars)
    ELSE 0

\* (?:\s+[A-Z][a-z]+)* after a word that ends before e: the position after
RECURSIVE MoreCapWords(_, _)
MoreCapWords(s, e) ==
    LET w == SpanEnd(s, e, SpaceChars)
    IN  IF w > e /\ CapWordEnd(s, w) # 0
        THEN MoreCapWords(s, CapWordEnd(s, w))
        ELSE e

\* [A-Z][a-z]+(?:\s+[A-Z][a-z]+)+ at i (two or more capitalised words)
FullNameEnd(s, i) ==
    LET w1 == CapWordEnd(s, i)
    IN  IF w1 = 0 THEN 0
        ELSE IF MoreCapWords(s, w1) = w1 THEN 0 ELSE MoreCapWords(s, w1)

\* [A-Z][a-z]+(?:\s+[A-Z][a-z]+)? at i (one or two capitalised words)
ShortNameEnd(s, i) ==
    LET w1 == CapWordEnd(s, i)
        w  == SpanEnd(s, w1, SpaceChars)
    IN  IF w1 = 0 THEN 0
        ELSE IF w > w1 /\ CapWordEnd(s, w) # 0 THEN CapWordEnd(s, w) ELSE w1

\* [A-Z][a-z]+\s+[A-Z][a-z]+ at i (exactly two capitalised words)
TwoWordNameEnd(s, i) ==
    LET w1 == CapWordEnd(s, i)
        w  == SpanEnd(s, w1, SpaceChars)
    IN  IF w1 = 0 THEN 0
        ELSE IF w > w1 THEN CapWordEnd(s, w) ELSE 0

\* \s*[&,]\s* at e: the position after the separator, or 0
SepEnd(s, e) ==
    LET k == SpanEnd(s, e, SpaceChars)
    IN  IF Ch(s, k) \in NameSeps THEN SpanEnd(s, k + 1, SpaceChars) ELSE 0

\* (?:\s*[&,]\s*<full name>)* after position e
RECURSIVE FullNameListEnd(_, _)
FullNameListEnd(s, e) ==
    IF SepEnd(s, e) # 0 /\ FullNameEnd(s, SepEnd(s, e)) # 0
    THEN FullNameListEnd(s, FullNameEnd(s, SepEnd(s, e)))
    ELSE e

\* (?:\s*[&,]\s*<short name>)* after position e
RECURSIVE ShortNameListEnd(_, _)
ShortNameListEnd(s, e) ==
    IF SepEnd(s, e) # 0 /\ ShortNameEnd(s, SepEnd(s, e)) # 0
    THEN ShortNameListEnd(s, ShortNameEnd(s, SepEnd(s, e)))
    ELSE e

\* \s*[:\-<en dash>] at e: the position of the delimiter, or 0
DelimAt(s, e) ==
    LET k == SpanEnd(s, e, SpaceChars)
    IN  IF Ch(s, k) \in Delims THEN k ELSE 0

\* re.sub(r'\s*\|.*$', '', s)
CutPipe(s) ==
    LET k == FirstChar(s, 1, "|")
    IN  IF k = 0 THEN s ELSE Prefix(s, SpanStart(s, k, SpaceChars))

\* re.sub(r'\s*\([^)]*\).*$', '', s)
CutParen(s) ==
    LET k == FirstChar(s, 1, "(")
    IN  IF k = 0 \/ FirstChar(s, k + 1, ")") = 0 THEN s
        ELSE Prefix(s, SpanStart(s, k, SpaceChars))

\* re.sub(r'^#?\d+\s*[-<en dash>:]\s*', '', s)
CutEpisodeNumber(s) ==
    LET a == IF Ch(s, 1) = "#" THEN 2 ELSE 1
        d == SpanEnd(s, a, DigitChars)
        k == SpanEnd(s, d, SpaceChars)
    IN  IF d > a /\ Ch(s, k) \in Delims
        THEN Tail2(s, SpanEnd(s, k + 1, SpaceChars))
        ELSE s

\* re.sub(r'^Ep\.?\s*\d+\s*[-<en dash>:]\s*', '', s, flags=re.IGNORECASE)
CutEpPrefix(s) ==
    LET a == IF Ch(s, 3) = "." THEN 4 ELSE 3
        b == SpanEnd(s, a, SpaceChars)
        d == SpanEnd(s, b, DigitChars)
        k == SpanEnd(s, d, SpaceChars)
    IN  IF ToLower(Sub(s, 1, 2)) = "ep" /\ d > b /\ Ch(s, k) \in Delims
        THEN Tail2(s, SpanEnd(s, k + 1, SpaceChars))
        ELSE s

\* s[:n]
Truncate(s, n) == IF Len(s) > n THEN Sub(s, 1, n) ELSE s

(***************************************************************************)
(* youtube.py: build_search_query                                          *)
(***************************************************************************)
TitleQueryChars == 60

ShortTitleChars == 40

\* step 1: the show name without "(...)" and "| ..." suffixes
CleanPodcastName(name) == Strip(CutPipe(CutParen(name)))

\* step 2: the title without episode number and "| ..." suffix
CleanTitle(title) == Strip(CutPipe(CutEpPrefix(CutEpisodeNumber(title))))

\* \bwith\s+([A-Z][a-z]+(?:\s+[A-Z][a-z]+)?) under re.IGNORECASE, tried at
\* position p: <<start, end>> of group 1, or << >>
WithAnyCaseAt(s, p) ==
    LET q  == SpanEnd(s, p + 4, SpaceChars)
        e1 == SpanEnd(s, q, LetterChars)
        w  == SpanEnd(s, e1, SpaceChars)
        e2 == SpanEnd(s, w, LetterChars)
    IN  IF /\ WordBoundary(s, p)
           /\ ToLower(Sub(s, p, p + 3)) = "with"
           /\ q > p + 4
           /\ e1 >= q + 2
        THEN IF w > e1 /\ e2 >= w + 2 THEN << q, e2 >> ELSE << q, e1 >>
        ELSE << >>

\* re.search of the pattern above: group 1 of the leftmost match, or ""
WithAnyCaseGroup(s) ==
    IF \E p \in 1..Len(s) : WithAnyCaseAt(s, p) # << >>
    THEN LET p == CHOOSE p \in 1..Len(s) :
                      /\ WithAnyCaseAt(s, p) # << >>
                      /\ \A r \in 1..(p - 1) : WithAnyCaseAt(s, r) = << >>
             m == WithAnyCaseAt(s, p)
         IN  Sub(s, m[1], m[2] - 1)
    ELSE ""

\* step 3: the guest names the query builder reads off the cleaned title
QueryGuestNames(title) ==
    LET e1 == ShortNameEnd(title, 1)
        e  == ShortNameListEnd(title, e1)
    IN  IF e1 # 0 /\ DelimAt(title, e) # 0
        THEN Sub(title, 1, e - 1)
        ELSE WithAnyCaseGroup(title)

Variants == << "primary", "guest_focused", "short_title", "title_only" >>

build_search_query(episode, variant) ==
    LET podcast_name == CleanPodcastName(episode.podcast_name)
        title        == CleanTitle(episode.title)
        guest_names  == QueryGuestNames(title)
    IN  IF variant = "title_only" THEN Truncate(title, TitleQueryChars)
        ELSE IF variant = "short_title"
             THEN Strip(podcast_name \o " " \o Truncate(title, ShortTitleChars))
        ELSE IF variant = "guest_focused" /\ guest_names # ""
             THEN Strip(podcast_name \o " " \o guest_names)
        ELSE IF guest_names # ""
             THEN Strip(podcast_name \o " " \o guest_names)
        ELSE Strip(podcast_name \o " " \o Truncate(title, TitleQueryChars))

(***************************************************************************)
(* youtube.py: extract_guest_names                                         *)
(***************************************************************************)
non_name_words ==
    {"weekly", "daily", "monthly", "annual", "special", "bonus", "live",
     "episode", "update", "news", "market", "breaking", "exclusive",
     "part", "volume", "series", "chapter", "intro", "outro", "preview",
     "the", "and", "with", "for", "from", "about", "into", "over"}

is_likely_name(text) ==
    LET parts == Split(text)
    IN  /\ Len(parts) >= 2
        /\ ToLower(parts[1]) \notin non_name_words
        /\ \A k \in 1..Len(parts) : Ch(parts[k], 1) \in UpperChars

\* re.split(r'\s*[&,]\s*', s)
RECURSIVE SplitNames(_)
SplitNames(s) ==
    IF \E k \in 1..Len(s) : Ch(s, k) \in NameSeps
    THEN LET k == CHOOSE k \in 1..Len(s) :
                      /\ Ch(s, k) \in NameSeps
                      /\ \A j \in 1..(k - 1) : Ch(s, j) \notin NameSeps
         IN  << Prefix(s, SpanStart(s, k, SpaceChars)) >>
                 \o SplitNames(Tail2(s, SpanEnd(s, k + 1, SpaceChars)))
    ELSE << s >>

\* Pattern 1: the text matched by the leading name list and its delimiter,
\* without the delimiter; "" when the pattern does not match
StartMatchNames(title) ==
    LET e1 == FullNameEnd(title, 1)
        e  == FullNameListEnd(title, e1)
    IN  IF e1 # 0 /\ DelimAt(title, e) # 0 THEN Sub(title, 1, e - 1) ELSE ""

\* the names of Pattern 1 that pass is_likely_name, in order
StartMatchGuests(title) ==
    SelectSeq([k \in 1..Len(SplitNames(StartMatchNames(title))) |->
                   Strip(SplitNames(StartMatchNames(title))[k])],
              LAMBDA n : n # "" /\ is_likely_name(n))

RoleKeywords == << "CEO", "CTO", "CFO", "CPO", "COO", "CSO", "President",
                   "Chairman", "Co-Founder", "Co-CEO" >>

\* Pattern 2a tried at position p: <<start, end>> of group 1, or << >>
RoleAt(s, p) ==
    IF /\ WordBoundary(s, p)
       /\ \E i \in 1..Len(RoleKeywords) : StartsAt(s, p, RoleKeywords[i])
    THEN LET i == CHOOSE i \in 1..Len(RoleKeywords) :
                      /\ StartsAt(s, p, RoleKeywords[i])
                      /\ \A j \in 1..(i - 1) : ~StartsAt(s, p, RoleKeywords[j])
             a == p + Len(RoleKeywords[i])
             q == SpanEnd(s, a, SpaceChars)
         IN  IF q > a /\ TwoWordNameEnd(s, q) # 0
             THEN << q, TwoWordNameEnd(s, q) >>
             ELSE << >>
    ELSE << >>

\* Pattern 2b tried at position p: <<start, end>> of group 1, or << >>
WithAt(s, p) ==
    LET q == SpanEnd(s, p + 4, SpaceChars)
    IN  IF /\ WordBoundary(s, p)
           /\ StartsAt(s, p, "with")
           /\ q > p + 4
           /\ TwoWordNameEnd(s, q) # 0
        THEN << q, TwoWordNameEnd(s, q) >>
        ELSE << >>

\* re.search for a pattern tried position by position: <<matched, group 1>>
SearchGroup(s, at) ==
    IF \E p \in 1..Len(s) : at[p] # << >>
    THEN LET p == CHOOSE p \in 1..Len(s) :
                      /\ at[p] # << >>
                      /\ \A r \in 1..(p - 1) : at[r] = << >>
         IN  << TRUE, Sub(s, at[p][1], at[p][2] - 1) >>
    ELSE << FALSE, "" >>

\* Pattern 3: group 1 of ^(<full name>)\s+on\s+, or ""
OnMatchName(title) ==
    LET e == FullNameEnd(title, 1)
        a == SpanEnd(title, e, SpaceChars)
    IN  IF /\ e # 0
           /\ a > e
           /\ StartsAt(title, a, "on")
           /\ Ch(title, a + 2) \in SpaceChars
        THEN Sub(title, 1, e - 1)
        ELSE ""

\* role_match and with_match: <<matched, group 1>>
RoleMatch(title) ==
    SearchGroup(title, Table([p \in 1..Len(title) |-> RoleAt(title, p)]))

WithMatch(title) ==
    SearchGroup(title, Table([p \in 1..Len(title) |-> WithAt(title, p)]))

\* Patterns 2a, 2b and 3, reached when Pattern 1 did not return
AfterStartMatch(title, role_match, with_match, on_name) ==
    IF role_match[1] /\ is_likely_name(Strip(role_match[2]))
    THEN << Strip(role_match[2]) >>
    ELSE IF with_match[1]
         THEN IF is_likely_name(Strip(with_match[2]))
              THEN << Strip(with_match[2]) >> ELSE << >>
    ELSE IF on_name # ""
         THEN IF Len(Split(Strip(on_name))) >= 2
              THEN << Strip(on_name) >> ELSE << >>
    ELSE << >>

\* an extraction that returns as soon as Pattern 1 matches
extract_guest_names_StartAlwaysReturns(title) ==
    IF StartMatchNames(title) # ""
    THEN StartMatchGuests(title)
    ELSE AfterStartMatch(title, RoleMatch(title), WithMatch(title), OnMatchName(title))

extract_guest_names(title) ==
    IF StartMatchNames(title) # "" /\ StartMatchGuests(title) # << >>
    THEN StartMatchGuests(title)
    ELSE AfterStartMatch(title, RoleMatch(title), WithMatch(title), OnMatchName(title))

(***************************************************************************)
(* youtube.py: name_appears_in_text                                        *)
(***************************************************************************)
\* re.search(rf'\b{first}\s+{initial}\.?\b', text)
FirstInitialIn(first, initial, text) ==
    \E p \in 1..Len(text) :
        LET a == p + Len(first)
            q == SpanEnd(text, a, SpaceChars)
        IN  /\ WordBoundary(text, p)
            /\ StartsAt(text, p, first)
            /\ q > a
            /\ Ch(text, q) = initial
            /\ \/ Ch(text, q + 1) = "." /\ WordBoundary(text, q + 2)
               \/ WordBoundary(text, q + 1)

\* re.search(rf'\b{word}\b', text)
WholeWordIn(word, text) ==
    \E p \in 1..Len(text) :
        /\ StartsAt(text, p, word)
        /\ WordBoundary(text, p)
        /\ WordBoundary(text, p + Len(word))

\* name_appears_in_text comparing without lowercasing
name_appears_in_text_CaseSensitive(name, text) ==
    LET parts      == Split(name)
        first_name == parts[1]
        last_name  == parts[Len(parts)]
    IN  IF Contains(name, text) THEN TRUE
        ELSE IF Len(parts) < 2 THEN FALSE
        ELSE IF Contains(first_name, text) /\ Contains(last_name, text) THEN TRUE
        ELSE IF FirstInitialIn(first_name, Ch(last_name, 1), text) THEN TRUE
        ELSE WholeWordIn(last_name, text)

name_appears_in_text(name, text) ==
    LET text_lower == ToLower(text)
        name_lower == ToLower(name)
        parts      == Split(name)
        first_name == ToLower(parts[1])
        last_name  == ToLower(parts[Len(parts)])
    IN  IF Contains(name_lower, text_lower) THEN TRUE
        ELSE IF Len(parts) < 2 THEN FALSE
        ELSE IF Contains(first_name, text_lower) /\ Contains(last_name, text_lower)
             THEN TRUE
        ELSE IF FirstInitialIn(first_name, Ch(last_name, 1), text_lower) THEN TRUE
        ELSE WholeWordIn(last_name, text_lower)

(***************************************************************************)
(* youtube.py: find_best_match and validate_match                          *)
(*                                                                         *)
(* An Optional value is << >> (None) or << v >>.  A YouTubeMatch is a      *)
(* record [video_id, title, url, channel, duration]; channel "" and        *)
(* duration 0 are the falsy values (None, "" or 0) of the source.          *)
(* A confidence is a whole number of hundredths: 100 is 1.0.               *)
(***************************************************************************)
GuestFoundPoints == 20

GuestMissingPoints == 25

ChannelPoints == 15

DurationClosePoints == 10

DurationNearPoints == 5

FullScore == 50

NoGuestCap == 30

NormalThreshold == 50

StrictThreshold == 70

stop_words == {"the", "a", "an", "and", "or", "but", "in", "on", "at", "to",
               "for", "of", "with", "by", "is", "it", "|", "-", EnDash}

\* the channel signal: cleaned show name and channel contain one another
ChannelMatches(episode, match) ==
    /\ match.channel # ""
    /\ LET podcast_name_clean == ToLower(Strip(CutPipe(CutParen(episode.podcast_name))))
           channel == ToLower(match.channel)
       IN  Contains(podcast_name_clean, channel) \/ Contains(channel, podcast_name_clean)

Abs(x) == IF x < 0 THEN -x ELSE x

\* the duration signal: 10 within 10%, 5 within 20%, else 0
DurationBonus(episode, match) ==
    IF match.duration # 0 /\ episode.duration_seconds > 0
    THEN LET duration_diff == Abs(match.duration - episode.duration_seconds)
         IN  IF 10 * duration_diff < episode.duration_seconds THEN DurationClosePoints
             ELSE IF 10 * duration_diff < 2 * episode.duration_seconds THEN DurationNearPoints
             ELSE 0
    ELSE 0

\* the words the two titles share, stop words aside
CommonWords(episode, match) ==
    (Range(Split(ToLower(episode.title))) \ stop_words)
        \cap (Range(Split(ToLower(match.title))) \ stop_words)

\* a scored entry whose missing guests add points instead of costing them
ScoredEntry_MissingRewarded(match, guests_found, guests_missing, other_score) ==
    [score          |-> GuestFoundPoints * Len(guests_found)
                            + GuestMissingPoints * Len(guests_missing) + other_score,
     match          |-> match,
     guests_found   |-> guests_found,
     guests_missing |-> guests_missing,
     guest_score    |-> GuestFoundPoints * Len(guests_found)
                            + GuestMissingPoints * Len(guests_missing)]

\* one entry of the list `scored`; guest_score is the part of score the
\* guest loop contributed, other_score the channel, duration and word parts
ScoredEntry(match, guests_found, guests_missing, other_score) ==
    [score          |-> GuestFoundPoints * Len(guests_found)
                            - GuestMissingPoints * Len(guests_missing) + other_score,
     match          |-> match,
     guests_found   |-> guests_found,
     guests_missing |-> guests_missing,
     guest_score    |-> GuestFoundPoints * Len(guests_found)
                            - GuestMissingPoints * Len(guests_missing)]

\* the loop body of find_best_match for one candidate
ScoreCandidate(episode, expected_guests, match) ==
    ScoredEntry(match,
                SelectSeq(expected_guests, LAMBDA g : name_appears_in_text(g, match.title)),
                SelectSeq(expected_guests, LAMBDA g : ~name_appears_in_text(g, match.title)),
                (IF ChannelMatches(episode, match) THEN ChannelPoints ELSE 0)
                    + DurationBonus(episode, match)
                    + Cardinality(CommonWords(episode, match)))

\* the list `scored` before it is sorted
ScoreAll(episode, expected_guests, matches) ==
    Table([i \in 1..Len(matches) |-> ScoreCandidate(episode, expected_guests, matches[i])])

\* scored.sort(key=score, reverse=True)[0]: the sort is stable, so the best
\* entry is the first one that holds the highest score
BestIndex(scored) ==
    CHOOSE i \in 1..Len(scored) :
        /\ \A j \in 1..Len(scored) : scored[j].score <= scored[i].score
        /\ \A j \in 1..(i - 1) : scored[j].score < scored[i].score

\* a normalisation that also zeroes small positive scores
NormalizeScore_SmallToZero(raw_score) ==
    IF raw_score <= 5 THEN 0
    ELSE IF raw_score >= FullScore THEN 100
    ELSE (raw_score * 100) \div FullScore

\* raw score to confidence, before the cap, in hundredths
NormalizeScore(raw_score) ==
    IF raw_score <= 0 THEN 0
    ELSE IF raw_score >= FullScore THEN 100
    ELSE (raw_score * 100) \div FullScore

\* a MatchResult built without the 0.3 cap
BestResult_NoCap(expected_guests, best) ==
    [match      |-> << best.match >>,
     confidence |-> NormalizeScore(best.score),
     raw_score  |-> best.score,
     guest_names_found   |-> best.guests_found,
     guest_names_missing |-> best.guests_missing]

\* the MatchResult built from the best entry: the 0.3 cap applies when guests
\* were expected and the best candidate confirmed none
BestResult(expected_guests, best) ==
    [match      |-> << best.match >>,
     confidence |-> IF expected_guests # << >> /\ best.guests_found = << >>
                    THEN Min(NormalizeScore(best.score), NoGuestCap)
                    ELSE NormalizeScore(best.score),
     raw_score  |-> best.score,
     guest_names_found   |-> best.guests_found,
     guest_names_missing |-> best.guests_missing]

SortedFirst(scored) == scored[BestIndex(scored)]

ScoreAndPick(episode, expected_guests, matches) ==
    BestResult(expected_guests, SortedFirst(ScoreAll(episode, expected_guests, matches)))

find_best_match(episode, matches) ==
    IF matches = << >>
    THEN [match |-> << >>, confidence |-> 0, raw_score |-> 0,
          guest_names_found |-> << >>, guest_names_missing |-> << >>]
    ELSE ScoreAndPick(episode, extract_guest_names(episode.title), matches)

\* a validator without the guests rule
validate_match_NoGuestRule(episode, match_result, strict) ==
    LET threshold == IF strict THEN StrictThreshold ELSE NormalThreshold
    IN  IF match_result.match = << >> THEN << FALSE, "No match found" >>
        ELSE IF match_result.confidence < threshold THEN << FALSE, "Low confidence" >>
        ELSE << TRUE, "" >>

\* the pair (is_valid, rejection reason) of validate_match
validate_match(episode, match_result, strict) ==
    LET threshold == IF strict THEN StrictThreshold ELSE NormalThreshold
    IN  IF match_result.match = << >> THEN << FALSE, "No match found" >>
        ELSE IF match_result.confidence < threshold THEN << FALSE, "Low confidence" >>
        ELSE IF /\ extract_guest_names(episode.title) # << >>
                /\ match_result.guest_names_found = << >>
             THEN << FALSE, "Expected guests not found in video title" >>
        ELSE << TRUE, "" >>

(***************************************************************************)
(* stratechery.py: title similarity, content-word overlap, post matching   *)
(*                                                                         *)
(* A ratio is a pair << numerator, denominator >> of naturals with a       *)
(* positive denominator; ratios are compared by cross multiplication.      *)
(***************************************************************************)
NoiseWords == << "episode", "podcast", "update", "interview", "special" >>

\* position i lies in a match of \b(episode|podcast|update|interview|special)\b
InNoiseWord(s, i) ==
    \E n \in 1..Len(NoiseWords) :
        \E p \in (i - Len(NoiseWords[n]) + 1)..i :
            /\ StartsAt(s, p, NoiseWords[n])
            /\ WordBoundary(s, p)
            /\ WordBoundary(s, p + Len(NoiseWords[n]))

\* what the three substitutions leave of s[i], read in the string before them:
\*   re.sub(r'\b(episode|podcast|update|interview|special)\b', '', s)
DropNoiseChar(s, i) == IF InNoiseWord(s, i) THEN "" ELSE Ch(s, i)

\*   re.sub(r'[^\w\s]', ' ', s)
BlankPunctChar(s, i) ==
    IF Ch(s, i) \in WordChars \cup SpaceChars THEN Ch(s, i) ELSE " "

\*   re.sub(r'\s+', ' ', s)
SqueezeChar(s, i) ==
    IF Ch(s, i) \notin SpaceChars THEN Ch(s, i)
    ELSE IF Ch(s, i - 1) \in SpaceChars THEN "" ELSE " "

\* the substitutions applied to s[a..b]; the range is halved to keep the
\* evaluation shallow
RECURSIVE DropNoiseRange(_, _, _)
DropNoiseRange(s, a, b) ==
    IF a > b THEN ""
    ELSE IF a = b THEN DropNoiseChar(s, a)
    ELSE DropNoiseRange(s, a, (a + b) \div 2) \o DropNoiseRange(s, (a + b) \div 2 + 1, b)

RECURSIVE BlankPunctRange(_, _, _)
BlankPunctRange(s, a, b) ==
    IF a > b THEN ""
    ELSE IF a = b THEN BlankPunctChar(s, a)
    ELSE BlankPunctRange(s, a, (a + b) \div 2) \o BlankPunctRange(s, (a + b) \div 2 + 1, b)

RECURSIVE SqueezeRange(_, _, _)
SqueezeRange(s, a, b) ==
    IF a > b THEN ""
    ELSE IF a = b THEN SqueezeChar(s, a)
    ELSE SqueezeRange(s, a, (a + b) \div 2) \o SqueezeRange(s, (a + b) \div 2 + 1, b)

DropNoise(s) == DropNoiseRange(s, 1, Len(s))

BlankPunct(s) == BlankPunctRange(s, 1, Len(s))

Squeeze(s) == SqueezeRange(s, 1, Len(s))

normalize_title(title) ==
    Strip(Squeeze(BlankPunct(DropNoise(
        CutPipe(CutEpPrefix(CutEpisodeNumber(Strip(ToLower(title)))))))))

\* the characters of s as a tuple
Chars(s) == Table([i \in 1..Len(s) |-> SubSeq(s, i, i)])

\* SequenceMatcher's index b2j: for each character of b, its positions in b
B2J(cb) == Table([c \in Range(cb) |-> { j \in 1..Len(cb) : cb[j] = c }])

\* the pairs << i, j >> with a[i] = b[j]
EqualPairs(ca, b2j) ==
    UNION { { << i, j >> : j \in b2j[ca[i]] } :
            i \in { x \in 1..Len(ca) : ca[x] \in DOMAIN b2j } }

\* for each such pair, the length of the common run of a and b that starts
\* at a[i], b[j]
RunTable(ca, cb, pairs) ==
    Table([p \in pairs |->
        Cardinality({ k \in 1..Min(Len(ca) - p[1] + 1, Len(cb) - p[2] + 1) :
                        \A l \in 0..(k - 1) : ca[p[1] + l] = cb[p[2] + l] })])

\* the part of the run at pair p that stays inside a[..ahi], b[..bhi]
RunLen(runs, p, ahi, bhi) == Min(runs[p], Min(ahi - p[1] + 1, bhi - p[2] + 1))

SetMax(S) == CHOOSE x \in S : \A y \in S : y <= x

SetMin(S) == CHOOSE x \in S : \A y \in S : x <= y

\* the block of the given size that starts at a[i] and earliest in b
LongestFrom(runs, pairs, i, ahi, bhi, size) ==
    << i,
       SetMin({ p[2] : p \in { q \in pairs : q[1] = i /\ RunLen(runs, q, ahi, bhi) = size } }),
       size >>

\* the block of the given size that starts earliest in a
LongestOfSize(runs, pairs, ahi, bhi, size) ==
    LongestFrom(runs, pairs,
                SetMin({ p[1] : p \in { q \in pairs : RunLen(runs, q, ahi, bhi) = size } }),
                ahi, bhi, size)

\* SequenceMatcher.find_longest_match without junk: the longest common
\* block of a[alo..ahi] and b[blo..bhi], the one that starts earliest in a
\* and, among those, earliest in b: << i, j, size >>.  pairs holds the equal
\* pairs inside the two ranges and is not empty.
find_longest_match(runs, pairs, ahi, bhi) ==
    LongestOfSize(runs, pairs, ahi, bhi,
                  SetMax({ RunLen(runs, p, ahi, bhi) : p \in pairs }))

\* the number of matched characters SequenceMatcher.get_matching_blocks
\* finds in a[alo..ahi], b[blo..bhi]: the longest block m, then the blocks
\* to its left and to its right
RECURSIVE MatchedChars(_, _, _, _, _, _)
RECURSIVE MatchedAround(_, _, _, _, _, _, _)
MatchedAround(runs, pairs, alo, ahi, blo, bhi, m) ==
    m[3] + MatchedChars(runs, { p \in pairs : p[1] < m[1] /\ p[2] < m[2] },
                        alo, m[1] - 1, blo, m[2] - 1)
         + MatchedChars(runs, { p \in pairs : p[1] >= m[1] + m[3] /\ p[2] >= m[2] + m[3] },
                        m[1] + m[3], ahi, m[2] + m[3], bhi)

MatchedChars(runs, pairs, alo, ahi, blo, bhi) ==
    IF pairs = {} THEN 0
    ELSE MatchedAround(runs, pairs, alo, ahi, blo, bhi,
                       find_longest_match(runs, pairs, ahi, bhi))

MatchedOfPairs(ca, cb, pairs) ==
    MatchedChars(RunTable(ca, cb, pairs), pairs, 1, Len(ca), 1, Len(cb))

MatchedOfChars(ca, cb) == MatchedOfPairs(ca, cb, EqualPairs(ca, B2J(cb)))

\* SequenceMatcher(None, a, b).ratio() = 2*M/T, and 1.0 when both are empty
SequenceRatio(a, b) ==
    IF Len(a) + Len(b) = 0 THEN << 1, 1 >>
    ELSE << 2 * MatchedOfChars(Chars(a), Chars(b)), Len(a) + Len(b) >>

title_similarity(title1, title2) ==
    SequenceRatio(normalize_title(title1), normalize_title(title2))

TEMPLATE_WORDS ==
    {"an", "a", "the", "and", "or", "but", "in", "on", "at", "to", "for",
     "of", "with", "by", "is", "it", "as", "from", "into", "about", "over",
     "interview", "co", "founder", "ceo", "chief", "executive", "officer",
     "president", "head", "director", "vice", "senior", "former", "new",
     "earnings", "update", "notes", "thoughts", "additional", "quick",
     "ben", "thompson", "stratechery", "daily", "email", "podcast",
     "its", "their", "our", "your", "his", "her", "how", "why", "what",
     "when", "where", "who", "which", "that", "this", "these", "those"}

\* re.findall(r'\b[a-zA-Z]\w*\b', s): the word runs that start with a letter
WordTokens(s) ==
    { Sub(s, p, SpanEnd(s, p, WordChars) - 1) :
        p \in { q \in 1..Len(s) : WordBoundary(s, q) /\ Ch(s, q) \in LetterChars } }

extract_content_words(title) ==
    { w \in WordTokens(ToLower(title)) : w \notin TEMPLATE_WORDS /\ Len(w) > 2 }

\* an overlap that is 0.0 for a title without content words
content_word_overlap_EmptyIsZero(title1, title2) ==
    LET words1 == extract_content_words(title1)
    IN  IF words1 = {} THEN << 0, 1 >>
        ELSE << Cardinality(words1 \cap extract_content_words(title2)),
                Cardinality(words1) >>

content_word_overlap(title1, title2) ==
    LET words1 == extract_content_words(title1)
    IN  IF words1 = {} THEN << 1, 1 >>
        ELSE << Cardinality(words1 \cap extract_content_words(title2)),
                Cardinality(words1) >>

\* x >= y for ratios
RatioGeq(x, y) == x[1] * y[2] >= y[1] * x[2]

\* sim * 0.7 + overlap * 0.3
CombinedScore(sim, overlap) ==
    << 7 * sim[1] * overlap[2] + 3 * overlap[1] * sim[2], 10 * sim[2] * overlap[2] >>

\* the similarity gate alone
PassesGates_SimilarityOnly(sim, overlap, min_similarity, min_content_overlap) ==
    RatioGeq(sim, min_similarity)

\* both gates of the loop body, for a post's similarity and overlap
PassesGates(sim, overlap, min_similarity, min_content_overlap) ==
    /\ RatioGeq(sim, min_similarity)
    /\ RatioGeq(overlap, min_content_overlap)

\* the loop of find_matching_post over posts[i..], carrying best_match and
\* best_score; MatchStep is the loop body for posts[i], whose similarity is
\* sim and whose content-word overlap is overlap
RECURSIVE MatchLoop(_, _, _, _, _, _, _)
RECURSIVE MatchStep(_, _, _, _, _, _, _, _, _)
MatchStep(episode, posts, i, min_similarity, min_content_overlap, best_match, best_score, sim, overlap) ==
    IF /\ PassesGates(sim, overlap, min_similarity, min_content_overlap)
       /\ ~RatioGeq(best_score, CombinedScore(sim, overlap))
    THEN MatchLoop(episode, posts, i + 1, min_similarity, min_content_overlap,
                   << posts[i] >>, CombinedScore(sim, overlap))
    ELSE MatchLoop(episode, posts, i + 1, min_similarity, min_content_overlap,
                   best_match, best_score)

MatchLoop(episode, posts, i, min_similarity, min_content_overlap, best_match, best_score) ==
    IF i > Len(posts) THEN best_match
    ELSE MatchStep(episode, posts, i, min_similarity, min_content_overlap,
                   best_match, best_score,
                   title_similarity(episode.title, posts[i].title),
                   content_word_overlap(episode.title, posts[i].title))

find_matching_post(episode, posts, min_similarity, min_content_overlap) ==
    IF posts = << >> THEN << >>
    ELSE MatchLoop(episode, posts, 1, min_similarity, min_content_overlap,
                   << >>, << 0, 1 >>)

(***************************************************************************)
(* youtube.py: extract_video_id, the transcript cache, the article sources *)
(*                                                                         *)
(* A Transcript is a record [episode_id, video_id, video_url, confidence,   *)
(* via]: text and segments are left out, and via records which provider    *)
(* produced it.  The cache directory is the set of the transcripts in its   *)
(* files; a file is named by episode_id and video_id.                       *)
(***************************************************************************)
IdChars == WordChars \cup {"-"}

\* the position after (?:https?://)?
SchemeEnd(url) ==
    IF StartsAt(url, 1, "https://") THEN 9
    ELSE IF StartsAt(url, 1, "http://") THEN 8
    ELSE 1

\* the position after an optional literal at p
OptionalEnd(url, p, literal) ==
    IF StartsAt(url, p, literal) THEN p + Len(literal) ELSE p

\* group 1 of literal([a-zA-Z0-9_-]+) matched at p, "" without a match
IdAfter(url, p, literal) ==
    IF StartsAt(url, p, literal)
    THEN Sub(url, p + Len(literal), SpanEnd(url, p + Len(literal), IdChars) - 1)
    ELSE ""

\* the video id as an Optional
extract_video_id(url) ==
    IF IdAfter(url, OptionalEnd(url, SchemeEnd(url), "www."), "youtube.com/watch?v=") # ""
    THEN << IdAfter(url, OptionalEnd(url, SchemeEnd(url), "www."), "youtube.com/watch?v=") >>
    ELSE IF IdAfter(url, SchemeEnd(url), "youtu.be/") # ""
         THEN << IdAfter(url, SchemeEnd(url), "youtu.be/") >>
    ELSE << >>

\* Transcript.save_to_cache: writes the file {episode_id}_{video_id}.json
save_to_cache(files, transcript) ==
    { t \in files : ~(t.episode_id = transcript.episode_id
                      /\ t.video_id = transcript.video_id) } \cup { transcript }

\* the files glob("{episode_id}_*.json") yields; load_from_cache returns the
\* first one the glob yields, and None when there is none
CachedFor(files, episode_id) == { t \in files : t.episode_id = episode_id }

is_stratechery(episode) == Contains("stratechery", ToLower(episode.podcast_name))

is_eye_on_the_market(episode) ==
    Contains("eye on the market", ToLower(episode.podcast_name))

\* a fetch that knows no article source
ArticleSources_None(episode) == << >>

\* the article sources fetch_transcript_for_episode asks for the episode, in
\* the order it asks them
ArticleSources(episode) ==
    (IF is_stratechery(episode) THEN << "stratechery" >> ELSE << >>)
        \o (IF is_eye_on_the_market(episode) THEN << "jpmorgan" >> ELSE << >>)

\* the Transcript an article source builds: its video_id is the source's name
\* and the slug of the article's URL, its confidence the default 1.0
ArticleTranscript(episode, source) ==
    [episode_id |-> episode.id, video_id |-> source \o "_slug",
     video_url |-> source \o "-article", confidence |-> 100, via |-> source]

\* a call that goes on whatever the validator said
ReturnsNoneOn_Never(verdict) == FALSE

\* after validate_match: `if not is_valid: ... return None`
ReturnsNoneOn(verdict) == ~verdict[1]

(***************************************************************************)
(* youtube.py: search_youtube_with_fallback                                *)
(*                                                                         *)
(* queries[i] is build_search_query(episode, Variants[i]).  responses[i]   *)
(* is what search_youtube does when it is called for variant i: it raises  *)
(* (yt_dlp fails) or returns the list matches.                             *)
(***************************************************************************)
\* the loop body once the query of variant i is built; searched is the list
\* of the variants search_youtube was called for so far
RECURSIVE FallbackLoop(_, _, _, _)
RECURSIVE FallbackStep_KeepsSearching(_, _, _, _, _)
RECURSIVE FallbackStep(_, _, _, _, _)
\* a loop body that goes on to the next variant after a search with results
FallbackStep_KeepsSearching(queries, responses, i, searched, query) ==
    IF query = "" THEN FallbackLoop(queries, responses, i + 1, searched)
    ELSE IF responses[i].raises
         THEN [searched |-> Append(searched, Variants[i]), raised |-> TRUE,
               matches |-> << >>]
    ELSE IF responses[i].matches # << >> /\ i = Len(Variants)
         THEN [searched |-> Append(searched, Variants[i]), raised |-> FALSE,
               matches |-> responses[i].matches]
    ELSE FallbackLoop(queries, responses, i + 1, Append(searched, Variants[i]))

FallbackStep(queries, responses, i, searched, query) ==
    IF query = "" THEN FallbackLoop(queries, responses, i + 1, searched)
    ELSE IF responses[i].raises
         THEN [searched |-> Append(searched, Variants[i]), raised |-> TRUE,
               matches |-> << >>]
    ELSE IF responses[i].matches # << >>
         THEN [searched |-> Append(searched, Variants[i]), raised |-> FALSE,
               matches |-> responses[i].matches]
    ELSE FallbackLoop(queries, responses, i + 1, Append(searched, Variants[i]))

\* the for loop from variant i on
FallbackLoop(queries, responses, i, searched) ==
    IF i > Len(Variants)
    THEN [searched |-> searched, raised |-> FALSE, matches |-> << >>]
    ELSE FallbackStep(queries, responses, i, searched, queries[i])

search_youtube_with_fallback(queries, responses) ==
    FallbackLoop(queries, responses, 1, << >>)

(***************************************************************************)
(* The episodes and search results the specifications draw from            *)
(***************************************************************************)
\* Episode records (podcast_db.py): the fields the matching core reads
Episodes ==
    { [id |-> 1, title |-> "Sam Altman & Greg Brockman: Building AI",
       podcast_name |-> "TechPod | Tech Talks", duration_seconds |-> 3600],
      [id |-> 2, title |-> "#45 - Sam Altman on the Future of AI | TechPod",
       podcast_name |-> "TechPod", duration_seconds |-> 3000],
      [id |-> 3, title |-> "Market Outlook 2025",
       podcast_name |-> "Eye on the Market", duration_seconds |-> 1500],
      [id |-> 4, title |-> "An Interview with Anduril Co-Founder and CEO Brian Schimpf About Paradigm Shifts",
       podcast_name |-> "Stratechery (Audio)", duration_seconds |-> 2700],
      [id |-> 5, title |-> "Ads Pay Buy Run Fly Web Bot Map Car Jet Lab App Bug Fix Hub Key with Sundar Pichai",
       podcast_name |-> "Deep Talks", duration_seconds |-> 2400],
      [id |-> 6, title |-> "", podcast_name |-> "", duration_seconds |-> 0] }

\* YouTubeMatch records a search may return
Candidates ==
    { [video_id |-> "va", title |-> "SAM ALTMAN AND GREG BROCKMAN ON BUILDING AI",
       url |-> "ua", channel |-> "TechPod", duration |-> 3600],
      [video_id |-> "vb", title |-> "Altman talk",
       url |-> "ub", channel |-> "", duration |-> 0],
      [video_id |-> "vc", title |-> "Altman Brockman",
       url |-> "uc", channel |-> "", duration |-> 0],
      [video_id |-> "vd", title |-> "Building stuff",
       url |-> "ud", channel |-> "", duration |-> 0],
      [video_id |-> "ve", title |-> "Sam Altmann on the Future of AI",
       url |-> "ue", channel |-> "TechPod", duration |-> 3000],
      [video_id |-> "vg", title |-> "Ads Pay Buy Run Fly Web Bot Map Car Jet Lab App Bug Fix Hub Key",
       url |-> "ug", channel |-> "Deep Talks", duration |-> 2400] }

\* the longest candidate list a specification draws
MaxMatches == 2

\* Stratechery episodes handed to find_matching_post
BlogEpisodes ==
    { [id |-> 4, title |-> "An Interview with Anduril Co-Founder and CEO Brian Schimpf About Paradigm Shifts",
       podcast_name |-> "Stratechery (Audio)", duration_seconds |-> 2700],
      [id |-> 7, title |-> "An Interview with Cursor Co-Founder and CEO Michael Truell About Coding With AI",
       podcast_name |-> "Stratechery (Audio)", duration_seconds |-> 3300],
      [id |-> 8, title |-> "Apple Earnings, Services Growth",
       podcast_name |-> "Stratechery (Audio)", duration_seconds |-> 900],
      [id |-> 9, title |-> "Stratechery Daily Update",
       podcast_name |-> "Stratechery (Audio)", duration_seconds |-> 600] }

\* posts of the site's search results: the title and url fields
Posts ==
    { [title |-> "An Interview with Cursor Co-Founder and CEO Michael Truell About Coding With AI",
       url |-> "p1"],
      [title |-> "An Interview with Anduril Co-Founder and CEO Brian Schimpf About Paradigm Shifts",
       url |-> "p2"],
      [title |-> "Anduril CEO Brian Schimpf on Paradigm Shifts", url |-> "p3"],
      [title |-> "Apple Earnings, Services Growth, Tariffs", url |-> "p4"] }

\* the longest post list a specification draws
MaxPosts == 2

\* the lists of at most n distinct posts
PostLists(n) ==
    UNION { { m \in [1..k -> Posts] : \A i, j \in 1..k : i # j => m[i] # m[j] } :
            k \in 0..n }

\* (min_similarity, min_content_overlap): the defaults 0.4 and 0.3, and a
\* stricter pair
Thresholds == { << << 2, 5 >>, << 3, 10 >> >>, << << 1, 2 >>, << 1, 2 >> >> }

\* the titles content_word_overlap is applied to
Titles == { e.title : e \in BlogEpisodes } \cup { q.title : q \in Posts }

\* the lists of at most n distinct candidates
CandidateLists(n) ==
    UNION { { m \in [1..k -> Candidates] : \A i, j \in 1..k : i # j => m[i] # m[j] } :
            k \in 0..n }

\* MatchResult values handed to validate_match directly
GivenConfidences == {0, 30, 49, 50, 69, 70, 100}

GivenResults ==
    { [match |-> m, confidence |-> c, raw_score |-> 0,
       guest_names_found |-> f, guest_names_missing |-> << >>] :
        m \in { << >> } \cup { << x >> : x \in { y \in Candidates : y.video_id = "va" } },
        c \in GivenConfidences,
        f \in { << >>, << "Sam Altman" >> } }

\* what search_youtube may do for one variant: return nothing, return one of
\* two result lists, or raise
Responses ==
    { [raises |-> FALSE, matches |-> << >>],
      [raises |-> FALSE, matches |-> << CHOOSE c \in Candidates : c.video_id = "va" >>],
      [raises |-> FALSE, matches |-> << CHOOSE c \in Candidates : c.video_id = "vb",
                                        CHOOSE c \in Candidates : c.video_id = "vc" >>],
      [raises |-> TRUE, matches |-> << >>] }

\* build_search_query for the four variants, computed once for each episode
QueriesOf ==
    Table([e \in Episodes |->
             Table([i \in 1..Len(Variants) |-> build_search_query(e, Variants[i])])])

\* the episodes fetch_transcript_for_episode is called for
FetchEpisodes == { e \in Episodes : e.id \in {1, 3, 4} }

\* the result lists a search of a fetch may return
FetchResults ==
    { r.matches : r \in { x \in Responses : x.matches # << >> } }
        \cup { << CHOOSE c \in Candidates : c.video_id = "vb" >>,
               << [video_id |-> "vm", title |-> "Market Outlook 2025", url |-> "um",
                   channel |-> "Eye on the Market", duration |-> 1500] >> }

\* the youtube_url arguments: none, a valid URL, an invalid one
Urls == { "", "https://youtu.be/vu_1", "youtube.com/playlist" }

\* the number of fetch_transcript_for_episode calls of a behaviour
MaxFetches == 2

\* the article sources of a fetch, computed once for each episode
SourcesOf == Table([e \in FetchEpisodes |-> ArticleSources(e)])

\* find_best_match and validate_match for a fetch, computed once for each
\* episode and result list
MatchResultOf ==
    Table([e \in FetchEpisodes, ms \in FetchResults |-> find_best_match(e, ms)])

VerdictOf ==
    Table([e \in FetchEpisodes, ms \in FetchResults |->
             validate_match(e, find_best_match(e, ms), FALSE)])

(***************************************************************************)
(* The not-found registry: _not_found.json in the cache directory           *)
(* (youtube.py 901-966).  A file is << >> when absent, << text >> otherwise. *)
(***************************************************************************)
DigitValue(c) == CHOOSE d \in 0..9 : ToString(d) = c

\* int() of a run of decimal digits
RECURSIVE IntOf(_)
IntOf(s) ==
    IF s = "" THEN 0
    ELSE 10 * IntOf(Prefix(s, Len(s))) + DigitValue(Ch(s, Len(s)))

RECURSIVE JsonItems(_)
JsonItems(list) ==
    IF list = << >> THEN ""
    ELSE IF Len(list) = 1 THEN ToString(list[1])
    ELSE ToString(list[1]) \o ", " \o JsonItems(Tail(list))

\* json.dump of a list of ints
json_dump_ints(list) == "[" \o JsonItems(list) \o "]"

\* the items from position p on, which is the start of an item or the "]"
RECURSIVE JsonIntsFrom(_, _)
JsonIntsFrom(text, p) ==
    IF p > Len(text) \/ Ch(text, p) = "]" THEN << >>
    ELSE LET q == SpanEnd(text, p, DigitChars)
         IN  << IntOf(Sub(text, p, q - 1)) >>
                 \o JsonIntsFrom(text, IF Ch(text, q) = "," THEN q + 2 ELSE q)

\* json.load of a list of ints
json_load_ints(text) == JsonIntsFrom(text, 2)

\* list(episode_ids): the elements of the set once each, in the set's order
ListsOf(ids) ==
    { list \in [1..Cardinality(ids) -> ids] : Range(list) = ids }

load_not_found(file) ==
    IF file # << >> THEN Range(json_load_ints(file[1])) ELSE {}

\* the files save_not_found(episode_ids) can leave
save_not_found(episode_ids) ==
    { << json_dump_ints(list) >> : list \in ListsOf(episode_ids) }

mark_not_found(file, episode_id) ==
    save_not_found(load_not_found(file) \cup {episode_id})

is_not_found(file, episode_id) == episode_id \in load_not_found(file)

clear_not_found_ClearsAll(file, episode_id) == save_not_found({})

clear_not_found(file, episode_id) ==
    save_not_found(load_not_found(file) \ {episode_id})

\* the set left and the count after the first n ids of the list were handled
RECURSIVE ClearLoop(_, _, _)
ClearLoop(not_found, episode_ids, n) ==
    IF n = 0 THEN [not_found |-> not_found, cleared |-> 0]
    ELSE LET before == ClearLoop(not_found, episode_ids, n - 1)
         IN  IF episode_ids[n] \in before.not_found
             THEN [not_found |-> before.not_found \ {episode_ids[n]},
                   cleared |-> before.cleared + 1]
             ELSE before

\* the files clear_not_found_matching can leave, and the count it returns
clear_not_found_matching(file, episode_ids) ==
    LET after == ClearLoop(load_not_found(file), episode_ids, Len(episode_ids))
    IN  [files |-> save_not_found(after.not_found), cleared |-> after.cleared]

(***************************************************************************)
(* State                                                                   *)
(***************************************************************************)
VARIABLES
    scorer,     \* one run of find_best_match / validate_match: inputs, locals, results
    blog,       \* one run of find_matching_post or content_word_overlap
    search,     \* one run of search_youtube_with_fallback
    cache,      \* the transcript cache directory
    accepted,   \* history: the (episode_id, video_id) pairs validate_match accepted
    fetch,      \* the latest call of fetch_transcript_for_episode: arguments, trace, result
    fetches,    \* the number of calls so far
    guests,     \* one run of extract_guest_names and build_search_query on a title
    registry,   \* the not-found registry file, with the history of the calls on it
    processed,  \* the StateManager's record per episode id: its status, "none" without one
    batch,      \* the latest batch command: its arguments, the episodes still to
                \* process and the results so far
    store,      \* the cache directory as files of JSON data, with the latest
                \* save_to_cache and load_from_cache calls on it
    outputs,    \* the summary cache and the markdown output directory
    archive,    \* stratechery.py and jpmorgan.py: the module-level _cached_posts,
                \* and the call that is under way with its HTTP requests
    chunker,    \* one call of chunk_transcript: its arguments and what it returned
    job         \* the web app's background job: the worker thread, its progress
                \* queue, and the event streams that read the queue

vars == << scorer, blog, search, cache, accepted, fetch, fetches, guests, registry,
           processed, batch, store, outputs, archive, chunker, job >>

\* the variables of the specifications further down, and their state at rest
\* the variables of the specifications that come after SpecBatch
afterVars == << chunker, job >>

laterVars == << archive, afterVars >>

storeVars == << registry, processed, batch, store, outputs, laterVars >>

restVars == << guests, storeVars >>

fetchVars == << cache, accepted, fetch, fetches >>

NoResult == [match |-> << >>, confidence |-> 0, raw_score |-> 0,
             guest_names_found |-> << >>, guest_names_missing |-> << >>]

ScorerIdle == [phase |-> "idle", given |-> FALSE, episode |-> CHOOSE e \in Episodes : e.id = 6,
               matches |-> << >>, strict |-> FALSE, scored |-> << >>,
               result |-> NoResult, verdict |-> << FALSE, "" >>]

BlogIdle == [phase |-> "idle", episode |-> CHOOSE e \in BlogEpisodes : e.id = 4,
             posts |-> << >>, min_similarity |-> << 2, 5 >>,
             min_content_overlap |-> << 3, 10 >>, result |-> << >>,
             title1 |-> "", title2 |-> "", overlap |-> << 1, 1 >>]

SearchIdle == [phase |-> "idle", episode |-> CHOOSE e \in Episodes : e.id = 6,
               responses |-> [i \in 1..Len(Variants) |-> [raises |-> FALSE, matches |-> << >>]],
               searched |-> << >>, raised |-> FALSE, matches |-> << >>]

\* providers: the providers asked, in order; searched: the variants searched;
\* captions: the video ids get_transcript was called for; saved: the cache
\* files written; outcome: "cached", "transcript", "none" or "raised"
NoCall == [episode_id |-> 0, use_cache |-> FALSE, youtube_url |-> "",
           providers |-> << >>, searched |-> << >>, matches |-> << >>,
           match_result |-> << >>, verdict |-> << >>, captions |-> << >>,
           saved |-> << >>, outcome |-> "idle", returned |-> << >>]

FetchIdle == cache = {} /\ accepted = {} /\ fetch = NoCall /\ fetches = 0

GuestsIdle == [phase |-> "idle", title |-> "", shape |-> "plain", name |-> "",
               names |-> << >>, cleaned |-> "", guest_names |-> "", variant |-> "",
               query |-> ""]

\* the ids the registry calls are made with
RegistryIds == {1, 3, 13}

\* file: the registry file; op, args: the latest call; before: the registered
\* ids before it; saved: the set it handed to save_not_found; cleared: the
\* count clear_not_found_matching returned; last: per id, the latest call on it
RegistryIdle == [file |-> << >>, op |-> "idle", args |-> << >>, before |-> {},
                 saved |-> {}, cleared |-> 0, last |-> [id \in RegistryIds |-> "none"]]

\* the ids of the episodes the batch commands are run on
BatchIds == {1, 3}

\* queue: the ids the loop of the command has yet to process; status: the
\* status reported per episode, "" for none; fetched: the episodes
\* fetch_transcript_for_episode was called for; registered: the ids the
\* registry held when the command began; records: the StateManager's records
\* when the command began; results: the list the command
\* returns, each result an episode id and its status tag; summarized: the
\* episodes summarize_transcript was called for; raised: the step of the
\* latest _process_single_episode that raised, "" for none; runs: the
\* number of commands so far; entries: the commands so far
BatchIdle == [entry |-> "idle", episodes |-> << >>, force |-> FALSE, dry_run |-> FALSE,
              retry |-> FALSE, use_cache |-> FALSE, queue |-> << >>,
              status |-> [id \in BatchIds |-> ""], fetched |-> {}, registered |-> {},
              records |-> [id \in BatchIds |-> "none"], results |-> << >>,
              summarized |-> {}, raised |-> "", runs |-> 0, entries |-> {}]

\* dir: the files, each a name and its JSON data; given: the transcript of
\* the latest save_to_cache; asked, loaded: the episode id and the result of
\* the latest load_from_cache; saves: the save_to_cache calls so far
StoreEmpty == [dir |-> {}, op |-> "idle", given |-> << >>, asked |-> 0,
               loaded |-> << >>, saves |-> 0]

\* summaries: the episodes with a file in the summary cache (sheets.py
\* cache_summary); files: the episodes with a markdown file (write_summary)
OutputsIdle == [summaries |-> {}, files |-> {}]

\* get: the latest page fetch (one URL): the status codes it received, 0 for
\* a session.get that raised, the sleeps it made, and whether it goes on to a
\* retry, failed or is ok
NoGet == [statuses |-> << >>, sleeps |-> 0, state |-> "none"]

\* cached_posts: the module's _cached_posts, << >> for None; crawls: the calls
\* of search_stratechery_posts so far; calls: the provider calls so far;
\* sessions: those of them that had a Stratechery session; pc: where the call
\* under way stands ("idle" when none is); page, posts: the loop variables of
\* the crawl; sent: the requests of the crawl or article fetch; used: the
\* post list the call matched against; match: the post that matched; url: the
\* article's URL; result: the Transcript returned, << >> for None
ArchiveIdle == [cached_posts |-> << >>, crawls |-> 0, calls |-> 0, sessions |-> 0,
                pc |-> "idle", op |-> "none", episode_id |-> 0, session |-> FALSE,
                page |-> 0, posts |-> << >>, sent |-> 0, get |-> NoGet,
                used |-> << >>, match |-> << >>, url |-> "", result |-> << >>]

\* no call of chunk_transcript yet
ChunkerIdle == [pc |-> "idle", text |-> "", max_chars |-> 0, chunks |-> << >>]

\* the streams a job is read by
MaxStreams == 2

Streams == 1..MaxStreams

\* a stream: state is "none" before the request, "not_found" after a 404,
\* "open" while generate() runs, "ended" after it returned; received is what
\* it yielded, keepalives included
NoStream == [state |-> "none", received |-> << >>]

\* pc: where the worker thread stands ("none" before the job is started,
\* "returned" after _run_processing returned); registered: the job is in _jobs;
\* queue: the progress queue; put: every event the worker put, in order;
\* failed: the worker went through its except branch; episode_ids: the
\* request's ids; to_process: len(episodes_to_process); calls: the calls of
\* the progress callback; response: the status of start_processing's response
JobIdle == [pc |-> "none", registered |-> FALSE, queue |-> << >>, put |-> << >>,
            failed |-> FALSE, episode_ids |-> << >>, to_process |-> 0, calls |-> 0,
            response |-> 0, streams |-> [c \in Streams |-> NoStream]]

AfterIdle == chunker = ChunkerIdle /\ job = JobIdle

LaterIdle == archive = ArchiveIdle /\ AfterIdle

FilesIdle ==
    /\ registry = RegistryIdle
    /\ processed = [id \in BatchIds |-> "none"]
    /\ batch = BatchIdle
    /\ store = StoreEmpty
    /\ outputs = OutputsIdle

StoreIdle == LaterIdle /\ FilesIdle

RestIdle == guests = GuestsIdle /\ StoreIdle

(***************************************************************************)
(* SpecMatch: the scorer and the validator applied to drawn inputs         *)
(***************************************************************************)
InitMatch ==
    /\ blog = BlogIdle
    /\ search = SearchIdle
    /\ FetchIdle
    /\ RestIdle
    /\ \/ \E e \in Episodes, ms \in CandidateLists(MaxMatches) :
              scorer = [ScorerIdle EXCEPT !.phase = "input", !.episode = e, !.matches = ms]
       \/ \E e \in Episodes, r \in GivenResults :
              scorer = [ScorerIdle EXCEPT !.phase = "scored", !.given = TRUE,
                                          !.episode = e, !.result = r]

\* find_best_match(episode, matches)
FindBestMatch ==
    /\ scorer.phase = "input"
    /\ scorer' = [scorer EXCEPT
                    !.phase  = "scored",
                    !.scored = ScoreAll(scorer.episode, extract_guest_names(scorer.episode.title),
                                        scorer.matches),
                    !.result = find_best_match(scorer.episode, scorer.matches)]
    /\ UNCHANGED << blog, search, fetchVars, restVars >>

\* validate_match(episode, match_result, strict)
ValidateMatch ==
    /\ scorer.phase = "scored"
    /\ \E strict \in BOOLEAN :
           scorer' = [scorer EXCEPT
                        !.phase   = "validated",
                        !.strict  = strict,
                        !.verdict = validate_match(scorer.episode, scorer.result, strict)]
    /\ UNCHANGED << blog, search, fetchVars, restVars >>

NextMatch == FindBestMatch \/ ValidateMatch

SpecMatch == InitMatch /\ [][NextMatch]_vars

(***************************************************************************)
(* Properties of the scorer and the validator (SpecMatch)                  *)
(***************************************************************************)
\* the run scored its candidates with find_best_match
Scored == scorer.phase \in {"scored", "validated"} /\ ~scorer.given

\* the names extract_guest_names takes from the episode of the run
ExpectedGuests == extract_guest_names(scorer.episode.title)

\* C1: validate_match accepts exactly when the result holds a match, its
\* confidence reaches the threshold (0.5, or 0.7 when strict) and either the
\* episode has no extractable guest names or at least one was found; an
\* episode without guest names is never rejected by the guests rule.
C1_ValidateAccepts ==
    scorer.phase = "validated" =>
        /\ scorer.verdict[1] <=>
              /\ scorer.result.match # << >>
              /\ scorer.result.confidence >= (IF scorer.strict THEN 70 ELSE 50)
              /\ (ExpectedGuests = << >> \/ scorer.result.guest_names_found # << >>)
        /\ ExpectedGuests = << >> =>
              scorer.verdict[2] # "Expected guests not found in video title"

\* C1 witness: a scored candidate of an episode without guest names is accepted
\* with no guest confirmed
C1_Witness ==
    /\ scorer.phase = "validated"
    /\ ~scorer.given
    /\ scorer.verdict[1]
    /\ ExpectedGuests = << >>
    /\ scorer.result.guest_names_found = << >>

\* C3 as stated: the confidence of a find_best_match result is 0.0 exactly
\* when its match is None
C3_ZeroIffNoMatch ==
    Scored => (scorer.result.confidence = 0 <=> scorer.result.match = << >>)

\* C3: a find_best_match result without a match has confidence 0.0, and the
\* confidence is 0.0 exactly when there is no match or the best candidate's
\* raw score is not positive.
C3_ZeroIffNoMatchOrNoScore ==
    Scored =>
        /\ scorer.result.match = << >> => scorer.result.confidence = 0
        /\ scorer.result.confidence = 0 <=>
              (scorer.result.match = << >> \/ scorer.result.raw_score <= 0)

\* C3 witness: a candidate is returned as the match with confidence 0.0
C3_Witness ==
    /\ Scored
    /\ scorer.result.match # << >>
    /\ scorer.result.confidence = 0
    /\ scorer.result.raw_score < 0

\* the highest raw score in the list `scored` of the run
BestRawScore == SetMax({ scorer.scored[i].score : i \in DOMAIN scorer.scored })

\* S/50 clamped to [0, 1], in hundredths
ClampedFiftieth(S) == IF S <= 0 THEN 0 ELSE IF S >= 50 THEN 100 ELSE (100 * S) \div 50

\* C4: with S the best candidate's raw score, the confidence is 0 when S <= 0,
\* 1 when S >= 50 and S/50 otherwise, then capped at 0.3 when the episode has
\* guest names and the chosen candidate confirmed none; it lies in [0, 1].
C4_ConfidenceFormula ==
    (Scored /\ scorer.matches # << >>) =>
        /\ scorer.result.confidence =
              IF ExpectedGuests # << >> /\ scorer.result.guest_names_found = << >>
              THEN Min(ClampedFiftieth(BestRawScore), 30)
              ELSE ClampedFiftieth(BestRawScore)
        /\ scorer.result.confidence \in 0..100

\* C4 witness: the cap lowers a confidence that S/50 puts above 0.3
C4_Witness ==
    /\ Scored
    /\ scorer.matches # << >>
    /\ ExpectedGuests # << >>
    /\ scorer.result.guest_names_found = << >>
    /\ ClampedFiftieth(BestRawScore) > 30
    /\ scorer.result.confidence = 30

\* the run scored one candidate, and candidate c as the only candidate has the
\* same channel, duration and common-word contributions
SameOtherSignals(c) ==
    /\ Scored
    /\ Len(scorer.matches) = 1
    /\ LET other == ScoreCandidate(scorer.episode, ExpectedGuests, c)
       IN  other.score - other.guest_score
               = scorer.scored[1].score - scorer.scored[1].guest_score

\* the number of expected guests candidate c confirms
Confirmed(c) == Len(find_best_match(scorer.episode, << c >>).guest_names_found)

\* C5: for a single candidate, with the channel, duration and common-word
\* contributions fixed, the confidence does not decrease when more expected
\* guest names are confirmed.
C5_MonotoneInConfirmedGuests ==
    \A c \in Candidates :
        (SameOtherSignals(c) /\ Confirmed(c) >= Len(scorer.result.guest_names_found)) =>
            find_best_match(scorer.episode, << c >>).confidence >= scorer.result.confidence

\* C5 witness: a candidate with the same other signals confirms more guests and
\* gets a higher confidence
C5_Witness ==
    \E c \in Candidates :
        /\ SameOtherSignals(c)
        /\ Confirmed(c) > Len(scorer.result.guest_names_found)
        /\ find_best_match(scorer.episode, << c >>).confidence > scorer.result.confidence

\* every expected guest name is a substring of the title, case aside
AllGuestsVerbatim(title) ==
    \A i \in DOMAIN ExpectedGuests :
        Contains(ToLower(ExpectedGuests[i]), ToLower(title))

\* C6: a candidate whose title holds every expected guest name verbatim, case
\* aside, gets no -25 penalty: all expected guests are found, none is missing,
\* the guest contribution is exactly +20 per expected guest, and the result
\* built from it lists them so.
C6_VerbatimGuestsAllFound ==
    Scored =>
        \A i \in DOMAIN scorer.scored :
            AllGuestsVerbatim(scorer.matches[i].title) =>
                /\ scorer.scored[i].guests_found = ExpectedGuests
                /\ scorer.scored[i].guests_missing = << >>
                /\ scorer.scored[i].guest_score = 20 * Len(ExpectedGuests)
                /\ scorer.result.match = << scorer.matches[i] >> =>
                      /\ scorer.result.guest_names_found = ExpectedGuests
                      /\ scorer.result.guest_names_missing = << >>

\* C6 witness: a candidate's title holds both names of a two-guest episode
C6_Witness ==
    /\ Scored
    /\ Len(ExpectedGuests) = 2
    /\ \E i \in DOMAIN scorer.scored :
           /\ AllGuestsVerbatim(scorer.matches[i].title)
           /\ scorer.scored[i].guest_score = 40

(***************************************************************************)
(* SpecPost: the blog-post matcher applied to drawn inputs                 *)
(***************************************************************************)
InitPost ==
    /\ scorer = ScorerIdle
    /\ search = SearchIdle
    /\ FetchIdle
    /\ RestIdle
    /\ \/ \E e \in BlogEpisodes, ps \in PostLists(MaxPosts), th \in Thresholds :
              blog = [BlogIdle EXCEPT !.phase = "input", !.episode = e, !.posts = ps,
                                      !.min_similarity = th[1],
                                      !.min_content_overlap = th[2]]
       \/ \E t1, t2 \in Titles :
              blog = [BlogIdle EXCEPT !.phase = "titles", !.title1 = t1, !.title2 = t2]

\* find_matching_post(episode, posts, min_similarity, min_content_overlap)
FindMatchingPost ==
    /\ blog.phase = "input"
    /\ blog' = [blog EXCEPT
                  !.phase  = "matched",
                  !.result = find_matching_post(blog.episode, blog.posts,
                                 blog.min_similarity, blog.min_content_overlap)]
    /\ UNCHANGED << scorer, search, fetchVars, restVars >>

\* content_word_overlap(title1, title2)
ContentWordOverlap ==
    /\ blog.phase = "titles"
    /\ blog' = [blog EXCEPT
                  !.phase   = "overlapped",
                  !.overlap = content_word_overlap(blog.title1, blog.title2)]
    /\ UNCHANGED << scorer, search, fetchVars, restVars >>

NextPost == FindMatchingPost \/ ContentWordOverlap

SpecPost == InitPost /\ [][NextPost]_vars

(***************************************************************************)
(* Properties of the blog-post matcher (SpecPost)                          *)
(***************************************************************************)
\* title_similarity and content_word_overlap of the episode with each post
Similarities ==
    Table([i \in DOMAIN blog.posts |->
             title_similarity(blog.episode.title, blog.posts[i].title)])

Overlaps ==
    Table([i \in DOMAIN blog.posts |->
             content_word_overlap(blog.episode.title, blog.posts[i].title)])

\* the posts that pass both gates
Passers(sims, overlaps) ==
    { i \in DOMAIN blog.posts :
        /\ RatioGeq(sims[i], blog.min_similarity)
        /\ RatioGeq(overlaps[i], blog.min_content_overlap) }

\* ten times 0.7 * similarity + 0.3 * overlap, as a ratio
TenfoldScore(sim, overlap) ==
    << 7 * sim[1] * overlap[2] + 3 * overlap[1] * sim[2], sim[2] * overlap[2] >>

\* the result is the best passer, or None when there is no passer
ReturnsBestPasser(sims, overlaps) ==
    /\ blog.result = << >> <=> Passers(sims, overlaps) = {}
    /\ blog.result # << >> =>
          \E i \in Passers(sims, overlaps) :
              /\ blog.posts[i] = blog.result[1]
              /\ \A j \in Passers(sims, overlaps) :
                     RatioGeq(TenfoldScore(sims[i], overlaps[i]),
                              TenfoldScore(sims[j], overlaps[j]))

\* the run matches the Anduril interview episode against the Cursor interview post
AndurilAgainstCursor ==
    /\ blog.episode.id = 4
    /\ Len(blog.posts) = 1
    /\ blog.posts[1].url = "p1"

SecondPasserBetter(sims, overlaps) ==
    /\ Passers(sims, overlaps) = {1, 2}
    /\ ~RatioGeq(TenfoldScore(sims[1], overlaps[1]), TenfoldScore(sims[2], overlaps[2]))

C8_OverlapBounds ==
    blog.phase = "overlapped" =>
        /\ blog.title1 = blog.title2 => blog.overlap[1] = blog.overlap[2]
        /\ extract_content_words(blog.title1) = {} => blog.overlap[1] = blog.overlap[2]
        /\ blog.overlap[2] > 0
        /\ blog.overlap[1] \in 0..blog.overlap[2]

\* C8 witness: a first title without content words has overlap 1.0 with a
\* different title
C8_Witness ==
    /\ blog.phase = "overlapped"
    /\ extract_content_words(blog.title1) = {}
    /\ blog.title1 # blog.title2
    /\ extract_content_words(blog.title2) # {}
    /\ blog.overlap = << 1, 1 >>

(***************************************************************************)
(* SpecSearch: the fallback search applied to drawn inputs                 *)
(***************************************************************************)
InitSearch ==
    /\ scorer = ScorerIdle
    /\ blog = BlogIdle
    /\ FetchIdle
    /\ RestIdle
    /\ \E e \in Episodes, r \in [1..Len(Variants) -> Responses] :
           search = [SearchIdle EXCEPT !.phase = "input", !.episode = e, !.responses = r]

ResultOfSearch(s, result) ==
    [s EXCEPT !.phase = "done", !.searched = result.searched,
              !.raised = result.raised, !.matches = result.matches]

\* search_youtube_with_fallback(episode)
SearchYoutubeWithFallback ==
    /\ search.phase = "input"
    /\ search' = ResultOfSearch(search,
                     search_youtube_with_fallback(QueriesOf[search.episode],
                                                  search.responses))
    /\ UNCHANGED << scorer, blog, fetchVars, restVars >>

NextSearch == SearchYoutubeWithFallback

SpecSearch == InitSearch /\ [][NextSearch]_vars

(***************************************************************************)
(* Properties of the fallback search (SpecSearch)                          *)
(***************************************************************************)
\* the order the variants are tried in
TriedOrder == << "primary", "guest_focused", "short_title", "title_only" >>

\* the place of variant v in that order
Place(v) == CHOOSE i \in 1..4 : TriedOrder[i] = v

\* the query of the run's episode for the variant at place i
QueryAt(i) == build_search_query(search.episode, TriedOrder[i])

\* the search for the variant at place i gave nothing
GaveNothing(i) == ~search.responses[i].raises /\ search.responses[i].matches = << >>

\* the variants a search was issued for, as a set of places
SearchedPlaces == { Place(search.searched[k]) : k \in DOMAIN search.searched }

\* C9: searches are issued in the order primary, guest_focused, short_title,
\* title_only; the results returned are exactly those of the first variant
\* whose search returned any, no later variant is searched, and the empty
\* list is returned only if every search returned nothing.  (A variant whose
\* query is empty has no search.)
C9_FirstNonEmptyWins ==
    (search.phase = "done" /\ ~search.raised) =>
        /\ \A k, l \in DOMAIN search.searched :
               k < l => Place(search.searched[k]) < Place(search.searched[l])
        /\ \A i \in 1..4 :
               i \in SearchedPlaces <=>
                   /\ QueryAt(i) # ""
                   /\ \A j \in 1..(i - 1) : QueryAt(j) # "" => GaveNothing(j)
        /\ search.matches # << >> =>
               \E i \in SearchedPlaces :
                   /\ search.matches = search.responses[i].matches
                   /\ \A j \in SearchedPlaces : j <= i /\ (j < i => GaveNothing(j))
        /\ search.matches = << >> => \A i \in SearchedPlaces : GaveNothing(i)

\* C9 witness: the first two searches give nothing, the third gives results
\* that are returned, and the fourth variant, which has other results, is not
\* searched
C9_Witness ==
    /\ search.phase = "done"
    /\ search.searched = << "primary", "guest_focused", "short_title" >>
    /\ search.matches = search.responses[3].matches
    /\ search.responses[4].matches # << >>
    /\ search.responses[4].matches # search.responses[3].matches
    /\ QueryAt(4) # ""

\* C10 as stated: when no guest names are extracted from the episode title,
\* no search is issued for the guest_focused variant
C10_GuestFocusedSkipped ==
    (/\ search.phase = "done"
     /\ extract_guest_names(search.episode.title) = << >>
     /\ QueryGuestNames(CleanTitle(search.episode.title)) = "") =>
        \A k \in DOMAIN search.searched : search.searched[k] # "guest_focused"


(***************************************************************************)
(* Spec: fetch_transcript_for_episode over the transcript cache            *)
(*                                                                         *)
(* The environment of a call: which cached file the glob yields first,     *)
(* what every search returns, whether get_transcript finds captions, and   *)
(* which article source has the episode's transcript.                      *)
(***************************************************************************)
Init ==
    /\ scorer = ScorerIdle
    /\ blog = BlogIdle
    /\ search = SearchIdle
    /\ FetchIdle
    /\ RestIdle

Call(episode, use_cache, youtube_url) ==
    [NoCall EXCEPT !.episode_id = episode.id, !.use_cache = use_cache,
                   !.youtube_url = youtube_url]

\* a fetch that goes on past a cached transcript
CacheMiss_Always(episode, use_cache) == TRUE

\* `if use_cache: cached = load_from_cache(...)`, `if cached:` is false
CacheMiss(episode, use_cache) ==
    ~use_cache \/ CachedFor(cache, episode.id) = {}

\* the searches of a call: the variants before stop return nothing, the
\* variant at stop returns out; the later ones are not looked at
SearchOutcomes ==
    { [i \in 1..Len(Variants) |-> IF i = stop THEN out
                                  ELSE [raises |-> FALSE, matches |-> << >>]] :
        stop \in 1..Len(Variants),
        out \in Responses \cup { [raises |-> FALSE, matches |-> ms] : ms \in FetchResults } }

\* a fetch that saves its transcript whatever use_cache says
SavesToCache_Always(call) == TRUE

\* `if use_cache:` before transcript.save_to_cache()
SavesToCache(call) == call.use_cache

\* `return transcript`, after `if use_cache: transcript.save_to_cache()`
Deliver(call, transcript) ==
    /\ fetch' = [call EXCEPT !.saved = IF SavesToCache(call) THEN << transcript >> ELSE << >>,
                             !.outcome = "transcript",
                             !.returned = << transcript >>]
    /\ cache' = IF SavesToCache(call) THEN save_to_cache(cache, transcript) ELSE cache

\* `return None`, or an exception that leaves the call
Leave(call, outcome) ==
    /\ fetch' = [call EXCEPT !.outcome = outcome]
    /\ cache' = cache

\* lines 795-798: the cached transcript is returned
ReturnCached(episode, use_cache, youtube_url) ==
    /\ use_cache
    /\ \E cached \in CachedFor(cache, episode.id) :
         fetch' = [Call(episode, use_cache, youtube_url) EXCEPT
                       !.providers = << "cache" >>,
                       !.outcome = "cached",
                       !.returned = << cached >>]
    /\ UNCHANGED << cache, accepted >>

GivenUrlTranscript(episode, youtube_url, video_id) ==
    [episode_id |-> episode.id, video_id |-> video_id, video_url |-> youtube_url,
     confidence |-> 100, via |-> "url"]

\* get_transcript(video_id) finds captions or returns None
AfterVideoId(call, episode, video_id) ==
    IF video_id = << >> THEN Leave(call, "raised")
    ELSE \/ Leave([call EXCEPT !.captions = video_id], "none")
         \/ Deliver([call EXCEPT !.captions = video_id],
                    GivenUrlTranscript(episode, call.youtube_url, video_id[1]))

\* lines 801-822: the given URL is used
FetchGivenUrl(episode, use_cache, youtube_url) ==
    /\ CacheMiss(episode, use_cache)
    /\ youtube_url # ""
    /\ AfterVideoId([Call(episode, use_cache, youtube_url) EXCEPT !.providers = << "url" >>],
                    episode, extract_video_id(youtube_url))
    /\ UNCHANGED accepted

\* lines 824-840: an article source has the transcript
FetchFromArticle(episode, use_cache, youtube_url) ==
    /\ CacheMiss(episode, use_cache)
    /\ youtube_url = ""
    /\ \E i \in 1..Len(SourcesOf[episode]) :
         Deliver([Call(episode, use_cache, youtube_url) EXCEPT
                      !.providers = SubSeq(SourcesOf[episode], 1, i)],
                 ArticleTranscript(episode, SourcesOf[episode][i]))
    /\ UNCHANGED accepted

SearchTranscript(episode, match_result) ==
    [episode_id |-> episode.id, video_id |-> match_result.match[1].video_id,
     video_url |-> match_result.match[1].url,
     confidence |-> match_result.confidence, via |-> "youtube_search"]

\* lines 874-898, after the validation let the call go on
AfterValidation(call, episode) ==
    IF call.match_result.match = << >> THEN Leave(call, "raised")
    ELSE \/ Leave([call EXCEPT !.captions = << call.match_result.match[1].video_id >>], "none")
         \/ Deliver([call EXCEPT !.captions = << call.match_result.match[1].video_id >>],
                    SearchTranscript(episode, call.match_result))

\* lines 850-872
AfterMatches(call, episode) ==
    /\ IF ReturnsNoneOn(call.verdict) THEN Leave(call, "none")
       ELSE AfterValidation(call, episode)
    /\ accepted' = IF call.verdict[1]
                   THEN accepted \cup { << episode.id, call.match_result.match[1].video_id >> }
                   ELSE accepted

\* lines 844-847
AfterSearch(call, episode, found) ==
    IF found.raised
    THEN Leave([call EXCEPT !.searched = found.searched], "raised") /\ accepted' = accepted
    ELSE IF found.matches = << >>
         THEN Leave([call EXCEPT !.searched = found.searched], "none") /\ accepted' = accepted
    ELSE AfterMatches([call EXCEPT !.searched = found.searched,
                                   !.matches = found.matches,
                                   !.match_result = MatchResultOf[episode, found.matches],
                                   !.verdict = VerdictOf[episode, found.matches]],
                      episode)

\* lines 843-898: no article source has the transcript, YouTube is searched;
\* outcomes: what the searches of the call may return
FetchFromSearch(episode, use_cache, youtube_url, outcomes) ==
    /\ CacheMiss(episode, use_cache)
    /\ youtube_url = ""
    /\ \E responses \in outcomes :
         AfterSearch([Call(episode, use_cache, youtube_url) EXCEPT
                          !.providers = SourcesOf[episode] \o << "youtube_search" >>],
                     episode,
                     search_youtube_with_fallback(QueriesOf[episode], responses))

\* one call, from the cache check to the return
fetch_transcript_for_episode(episode, use_cache, youtube_url, outcomes) ==
    \/ ReturnCached(episode, use_cache, youtube_url)
    \/ FetchGivenUrl(episode, use_cache, youtube_url)
    \/ FetchFromArticle(episode, use_cache, youtube_url)
    \/ FetchFromSearch(episode, use_cache, youtube_url, outcomes)

FetchTranscriptForEpisode ==
    /\ fetches < MaxFetches
    /\ fetches' = fetches + 1
    /\ \E episode \in FetchEpisodes, use_cache \in BOOLEAN, youtube_url \in Urls :
         fetch_transcript_for_episode(episode, use_cache, youtube_url, SearchOutcomes)
    /\ UNCHANGED << scorer, blog, search, restVars >>

Next == FetchTranscriptForEpisode

Spec == Init /\ [][Next]_vars

\* the latest call found search results and validate_match rejected the best
RejectedCall ==
    /\ fetch.matches # << >>
    /\ ~fetch.verdict[1]

\* C2: a call whose YouTube search result the validator rejected makes no
\* get_transcript call, leaves the cache as it was and returns None; and at
\* every moment each cached transcript that came from a YouTube search
\* belongs to a match the validator accepted.
C2_RejectedMatchNotFetched ==
    /\ [][RejectedCall' =>
            /\ fetch'.captions = << >>
            /\ fetch'.saved = << >>
            /\ cache' = cache
            /\ fetch'.outcome = "none"
            /\ fetch'.returned = << >>]_vars
    /\ [](\A t \in cache :
            t.via = "youtube_search" => << t.episode_id, t.video_id >> \in accepted)

\* a rejected call after an earlier call cached a transcript found by search
C2_Witness ==
    /\ RejectedCall
    /\ fetch.outcome = "none"
    /\ \E t \in cache : t.via = "youtube_search"


\* the episode of the latest call
FetchedEpisode == CHOOSE e \in FetchEpisodes : e.id = fetch.episode_id

\* C14: a call with use_cache=True for an episode the cache holds an entry
\* for returns a cached entry of that episode and asks no provider: no URL
\* fetch, no article source, no search, no scoring, no validation, no caption
\* fetch, and the cache stays as it was; this holds for every call of a run.
C14_CacheHitBypassesProviders ==
    [][(/\ fetches' # fetches
        /\ fetch'.use_cache
        /\ CachedFor(cache, fetch'.episode_id) # {})
       => /\ fetch'.outcome = "cached"
          /\ fetch'.returned \in { << t >> : t \in CachedFor(cache, fetch'.episode_id) }
          /\ fetch'.providers = << "cache" >>
          /\ fetch'.searched = << >>
          /\ fetch'.matches = << >>
          /\ fetch'.match_result = << >>
          /\ fetch'.verdict = << >>
          /\ fetch'.captions = << >>
          /\ fetch'.saved = << >>
          /\ cache' = cache]_vars

\* a second call answered from the cache the first call filled
C14_Witness ==
    /\ fetches = 2
    /\ fetch.outcome = "cached"
    /\ fetch.returned[1] \in cache

\* the applicable article sources, from the podcast name
Applicable(episode) ==
    { src \in { "stratechery", "jpmorgan" } :
        \/ src = "stratechery" /\ is_stratechery(episode)
        \/ src = "jpmorgan" /\ is_eye_on_the_market(episode) }

\* the latest call missed the cache and had no manual URL
SearchedForSource ==
    /\ fetch.outcome \notin { "idle", "cached" }
    /\ fetch.youtube_url = ""

\* C20: on a cache miss without a manual URL the applicable article source is
\* asked first and YouTube search after it; the search is issued only when no
\* article source gave a transcript, and a transcript an article source gave is
\* the result, without any search.
C20_ProviderPriority ==
    SearchedForSource =>
        /\ fetch.providers # << >>
        /\ \A k \in 1..Len(fetch.providers) :
               fetch.providers[k] \in Applicable(FetchedEpisode) \cup { "youtube_search" }
        /\ \A k \in 1..Len(fetch.providers) :
               fetch.providers[k] = "youtube_search" =>
                   /\ k = Len(fetch.providers)
                   /\ Applicable(FetchedEpisode) = { fetch.providers[j] : j \in 1..(k - 1) }
        /\ fetch.providers[Len(fetch.providers)] = "youtube_search" =>
               \/ fetch.returned = << >>
               \/ /\ fetch.verdict[1]
                  /\ fetch.returned = << SearchTranscript(FetchedEpisode, fetch.match_result) >>
        /\ fetch.providers[Len(fetch.providers)] # "youtube_search" =>
               /\ fetch.searched = << >>
               /\ fetch.matches = << >>
               /\ fetch.captions = << >>
               /\ fetch.outcome = "transcript"
               /\ fetch.returned[1].via = fetch.providers[Len(fetch.providers)]

\* an article source failed and the search after it gave the transcript
C20_Witness ==
    /\ SearchedForSource
    /\ Len(fetch.providers) = 2
    /\ fetch.providers[2] = "youtube_search"
    /\ fetch.outcome = "transcript"

(***************************************************************************)
(* SpecRegistry: serial calls on the not-found registry                     *)
(***************************************************************************)
\* the id lists given to clear_not_found_matching
IdLists ==
    {<< >>} \cup { << a >> : a \in RegistryIds }
            \cup { << a, b >> : a \in RegistryIds, b \in RegistryIds }

InitRegistry ==
    /\ scorer = ScorerIdle /\ blog = BlogIdle /\ search = SearchIdle
    /\ FetchIdle
    /\ guests = GuestsIdle
    /\ StoreIdle

Called(op, args, file, saved, cleared, last) ==
    [file |-> file, op |-> op, args |-> args, before |-> load_not_found(registry.file),
     saved |-> saved, cleared |-> cleared, last |-> last]

MarkNotFound ==
    /\ \E episode_id \in RegistryIds :
         \E file \in mark_not_found(registry.file, episode_id) :
           registry' = Called("mark", << episode_id >>, file,
                              load_not_found(registry.file) \cup {episode_id}, 0,
                              [registry.last EXCEPT ![episode_id] = "mark"])
    /\ UNCHANGED << scorer, blog, search, fetchVars, guests, processed, batch, store, outputs, laterVars >>

ClearNotFound ==
    /\ \E episode_id \in RegistryIds :
         \E file \in clear_not_found(registry.file, episode_id) :
           registry' = Called("clear", << episode_id >>, file,
                              load_not_found(registry.file) \ {episode_id}, 0,
                              [registry.last EXCEPT ![episode_id] = "clear"])
    /\ UNCHANGED << scorer, blog, search, fetchVars, guests, processed, batch, store, outputs, laterVars >>

ClearNotFoundMatching ==
    /\ \E episode_ids \in IdLists :
         LET done == clear_not_found_matching(registry.file, episode_ids)
         IN  \E file \in done.files :
               registry' = Called("clear_matching", episode_ids, file,
                                  load_not_found(registry.file) \ Range(episode_ids),
                                  done.cleared,
                                  [id \in RegistryIds |->
                                      IF id \in Range(episode_ids) THEN "clear"
                                      ELSE registry.last[id]])
    /\ UNCHANGED << scorer, blog, search, fetchVars, guests, processed, batch, store, outputs, laterVars >>

NextRegistry == MarkNotFound \/ ClearNotFound \/ ClearNotFoundMatching

SpecRegistry == InitRegistry /\ [][NextRegistry]_vars

\* C17: after any serial sequence of mark_not_found, clear_not_found and
\* clear_not_found_matching calls, is_not_found(id) holds exactly when the
\* latest call on id was a mark; a call leaves every id it was not given as it
\* was; an id that was marked and then cleared is gone from the file, which
\* holds an empty list when nothing is registered; and what load_not_found
\* reads back is the set the latest call saved, the empty set included.
C17_RegistryTracksLatestCall ==
    /\ \A id \in RegistryIds :
         is_not_found(registry.file, id) <=> registry.last[id] = "mark"
    /\ \A id \in RegistryIds \ Range(registry.args) :
         is_not_found(registry.file, id) <=> id \in registry.before
    /\ registry.op # "idle" =>
         /\ load_not_found(registry.file) = registry.saved
         /\ registry.saved = {} => registry.file = << "[]" >>
    /\ registry.op = "clear_matching" =>
         registry.cleared = Cardinality(registry.before \cap Range(registry.args))

\* an id was cleared after it had been marked, while two others stay registered
C17_Witness ==
    /\ registry.op = "clear"
    /\ registry.args = << 3 >>
    /\ 3 \in registry.before
    /\ load_not_found(registry.file) = {1, 13}

(***************************************************************************)
(* SpecBatch: run_pipeline, process_episodes, --retry-episodes and direct  *)
(* fetch_transcript_for_episode calls, one command after the other, over   *)
(* the transcript cache, the not-found registry and the StateManager.      *)
(* A command with a loop over episodes is a step that begins it and one    *)
(* step per episode of the loop.                                           *)
(***************************************************************************)
\* the number of commands of a behaviour
MaxRuns == 2

EpisodeOf(id) == CHOOSE e \in FetchEpisodes : e.id = id

\* get_episodes_since(): the episodes of the database, as ids
AllEpisodes == << 1, 3 >>

\* the episode lists of a command; a list holds an episode once
EpisodeLists == { << 1 >>, << 3 >>, << 1, 3 >> }

\* the search terms of --retry-episodes
TermLists == { << "ALTMAN" >>, << "market" >>, << "tech", "eye on" >>, << "stratechery" >> }

\* what the searches of a fetch of a command return: nothing at all, an
\* exception, or one result for the primary query (the validator accepts it
\* for episode 1 and rejects it for episode 3)
BatchOutcomes ==
    { o \in SearchOutcomes :
        /\ \A i \in 2..Len(Variants) : ~o[i].raises /\ o[i].matches = << >>
        /\ o[1].matches # << >> =>
               Len(o[1].matches) = 1 /\ o[1].matches[1].video_id = "va" }

\* the youtube_url arguments of a direct call: none, a valid URL
BatchUrls == { url \in Urls : url = "" \/ extract_video_id(url) # << >> }

InitBatch ==
    /\ scorer = ScorerIdle /\ blog = BlogIdle /\ search = SearchIdle
    /\ FetchIdle
    /\ guests = GuestsIdle
    /\ StoreIdle

\* the command begins: its arguments, the episodes its loop will process and
\* the results it has before the loop
\* the results of the episodes ids, in their order
ResultsOf(ids, status) == [k \in DOMAIN ids |-> << ids[k], status[ids[k]] >>]

\* the episodes that have a status
Settled(episodes, status) ==
    LET Has(id) == status[id] # "" IN SelectSeq(episodes, Has)

Begun(entry, episodes, flags, queue, status) ==
    [entry |-> entry, episodes |-> episodes, force |-> flags.force,
     dry_run |-> flags.dry_run, retry |-> flags.retry, use_cache |-> flags.use_cache,
     queue |-> queue, status |-> status, fetched |-> {},
     registered |-> load_not_found(registry.file), records |-> processed,
     results |-> ResultsOf(Settled(episodes, status), status),
     summarized |-> {}, raised |-> "", runs |-> batch.runs + 1,
     entries |-> batch.entries \cup { entry }]

\* a first pass that sends an episode with a 'success' record to the loop
FirstPassStatus_SuccessNotSkipped(id, force, retry_no_transcript) ==
    IF ~force /\ processed[id] = "no_transcript" /\ ~retry_no_transcript
    THEN "no_transcript"
    ELSE ""

\* pipeline.py 83-98: the result of the first pass for an episode, "" when
\* the episode is appended to to_process
FirstPassStatus(id, force, retry_no_transcript) ==
    IF ~force /\ processed[id] # "none" /\ processed[id] = "success" THEN "skipped"
    ELSE IF ~force /\ processed[id] # "none" /\ processed[id] = "no_transcript"
            /\ ~retry_no_transcript
         THEN "no_transcript"
    ELSE ""

FirstPass(episodes, force, retry_no_transcript) ==
    [id \in BatchIds |->
        IF id \in Range(episodes) THEN FirstPassStatus(id, force, retry_no_transcript)
        ELSE ""]

\* to_process after the first pass
ToProcess(episodes, first_pass) ==
    LET Kept(id) == first_pass[id] = "" IN SelectSeq(episodes, Kept)

\* a dry run that goes on to the loop all the same
LoopQueue_IgnoresDryRun(dry_run, to_process) == to_process

\* pipeline.py 102-117: the episodes the loop of run_pipeline goes through
LoopQueue(dry_run, to_process) == IF dry_run THEN << >> ELSE to_process

\* run_pipeline up to its loop (pipeline.py 45-117)
RunPipeline ==
    /\ batch.queue = << >>
    /\ batch.runs < MaxRuns
    /\ \E episodes \in EpisodeLists, force \in BOOLEAN, dry_run \in BOOLEAN,
          retry_no_transcript \in BOOLEAN :
         batch' = Begun("run_pipeline", episodes,
                        [force |-> force, dry_run |-> dry_run,
                         retry |-> retry_no_transcript, use_cache |-> TRUE],
                        LoopQueue(dry_run,
                                  ToProcess(episodes,
                                            FirstPass(episodes, force, retry_no_transcript))),
                        FirstPass(episodes, force, retry_no_transcript))
    /\ UNCHANGED << scorer, blog, search, fetchVars, guests, registry, processed, store, outputs, laterVars >>

\* a fetch that registers the episode after an exception too
MarksNotFound_OnException(outcome) == outcome \in { "none", "raised" }

\* `if not transcript:` (pipeline.py 157) and the `else:` of processor.py 104
MarksNotFound(outcome) == outcome = "none"

\* a failure whose result carries no status tag
PipelineStatus_FailureUntagged(outcome, summarized) ==
    IF MarksNotFound(outcome) THEN "no_transcript"
    ELSE IF outcome \in { "cached", "transcript" } /\ summarized THEN "success"
    ELSE ""

\* the status _process_single_episode records and returns; summarized: the
\* steps after the fetch (summary, summary cache, markdown) went through
PipelineStatus(outcome, summarized) ==
    IF MarksNotFound(outcome) THEN "no_transcript"
    ELSE IF outcome \in { "cached", "transcript" } /\ summarized THEN "success"
    ELSE "error"

\* the registry file after the optional clear_not_found and the fetch
AfterFetch(id, clears, outcome) ==
    UNION { IF MarksNotFound(outcome) THEN mark_not_found(cleared, id) ELSE { cleared } :
              cleared \in (IF clears THEN clear_not_found(registry.file, id)
                           ELSE { registry.file }) }

\* the steps of _process_single_episode that may raise into its except
\* branch, given how the fetch ended: "" when none does
RaisingSteps(outcome) ==
    IF outcome = "raised" THEN { "fetch" }
    ELSE IF outcome = "none" THEN { "" }
    ELSE { "", "summarize", "cache_summary", "write_summary" }

\* pipeline.py 172-178: summarize_transcript is called when there is a
\* transcript; cache_summary writes the summary file and write_summary the
\* markdown file unless a step before them raised (a step that raises has
\* written nothing)
AfterSummary(id, raised) ==
    [summaries |-> IF raised \in { "", "write_summary" }
                   THEN outputs.summaries \cup { id } ELSE outputs.summaries,
     files |-> IF raised = "" THEN outputs.files \cup { id } ELSE outputs.files]

\* pipeline.py 157-209: the state record, the result and the outputs of the
\* episode once the fetch has ended with outcome and the step raised has raised
Recorded(id, outcome, raised) ==
    /\ processed' = [processed EXCEPT ![id] = PipelineStatus(outcome, raised = "")]
    /\ batch' = [batch EXCEPT
                   !.queue = Tail(batch.queue),
                   !.status[id] = PipelineStatus(outcome, raised = ""),
                   !.fetched = batch.fetched \cup { id },
                   !.results = Append(batch.results,
                                      << id, PipelineStatus(outcome, raised = "") >>),
                   !.summarized = IF outcome \in { "cached", "transcript" }
                                  THEN batch.summarized \cup { id }
                                  ELSE batch.summarized,
                   !.raised = raised]
    /\ outputs' = IF outcome \in { "cached", "transcript" } THEN AfterSummary(id, raised)
                  ELSE outputs

\* _process_single_episode for the next episode of to_process (pipeline.py 140-209)
ProcessSingleEpisode ==
    /\ batch.entry \in { "run_pipeline", "retry_episodes" }
    /\ batch.queue # << >>
    /\ fetch_transcript_for_episode(EpisodeOf(Head(batch.queue)), TRUE, "", BatchOutcomes)
    /\ \E file \in AfterFetch(Head(batch.queue), batch.retry, fetch'.outcome) :
         registry' = [registry EXCEPT !.file = file]
    /\ \E raised \in RaisingSteps(fetch'.outcome) :
         Recorded(Head(batch.queue), fetch'.outcome, raised)
    /\ UNCHANGED << scorer, blog, search, fetches, guests, store, laterVars >>

\* process_episodes up to its loop (processor.py 35-62)
ProcessEpisodes ==
    /\ batch.queue = << >>
    /\ batch.runs < MaxRuns
    /\ \E episodes \in EpisodeLists, use_cache \in BOOLEAN, retry_not_found \in BOOLEAN :
         batch' = Begun("process_episodes", episodes,
                        [force |-> FALSE, dry_run |-> FALSE,
                         retry |-> retry_not_found, use_cache |-> use_cache],
                        episodes, [id \in BatchIds |-> ""])
    /\ UNCHANGED << scorer, blog, search, fetchVars, guests, registry, processed, store, outputs, laterVars >>

ProcessorStatus(outcome) ==
    IF MarksNotFound(outcome) THEN "not_found"
    ELSE IF outcome = "transcript" THEN "success"
    ELSE "error"

\* processor.py 96-119: the fetch and what follows it
FetchForProcessor(id) ==
    /\ fetch_transcript_for_episode(EpisodeOf(id), batch.use_cache, "", BatchOutcomes)
    /\ \E file \in AfterFetch(id, batch.retry, fetch'.outcome) :
         registry' = [registry EXCEPT !.file = file]
    /\ batch' = [batch EXCEPT !.queue = Tail(batch.queue),
                              !.status[id] = ProcessorStatus(fetch'.outcome),
                              !.fetched = batch.fetched \cup { id },
                              !.results = Append(batch.results,
                                                 << id, ProcessorStatus(fetch'.outcome) >>)]
    /\ fetches' = fetches

\* processor.py 84-93: the loop's own cache check finds the transcript
CachedForProcessor(id) ==
    /\ \E file \in AfterFetch(id, batch.retry, "cached") :
         registry' = [registry EXCEPT !.file = file]
    /\ batch' = [batch EXCEPT !.queue = Tail(batch.queue), !.status[id] = "cached",
                              !.results = Append(batch.results, << id, "cached" >>)]
    /\ UNCHANGED fetchVars

\* the body of the loop of process_episodes for the next episode (processor.py 64-121)
ProcessEpisode ==
    /\ batch.entry = "process_episodes"
    /\ batch.queue # << >>
    /\ IF ~batch.retry /\ is_not_found(registry.file, Head(batch.queue))
       THEN /\ batch' = [batch EXCEPT !.queue = Tail(batch.queue),
                                      !.status[Head(batch.queue)] = "not_found",
                                      !.results = Append(batch.results,
                                                         << Head(batch.queue), "not_found" >>)]
            /\ UNCHANGED << fetchVars, registry >>
       ELSE IF batch.use_cache /\ CachedFor(cache, Head(batch.queue)) # {}
            THEN CachedForProcessor(Head(batch.queue))
       ELSE FetchForProcessor(Head(batch.queue))
    /\ UNCHANGED << scorer, blog, search, guests, processed, store, outputs, laterVars >>

\* cli.py 198-203: some search term is in the episode's lowered podcast name
\* and title; computed once for each episode and term list
MatchesTerms ==
    Table([id \in BatchIds, search_terms \in TermLists |->
              \E k \in DOMAIN search_terms :
                  Contains(ToLower(search_terms[k]),
                           ToLower(EpisodeOf(id).podcast_name \o " " \o EpisodeOf(id).title))])

\* cli.py 193-203: the registered episodes that match a search term
RetryMatches(search_terms) ==
    LET Matching(id) ==
            id \in load_not_found(registry.file) /\ MatchesTerms[id, search_terms]
    IN  SelectSeq(AllEpisodes, Matching)

\* cli.py 205-237: nothing matched, or the matches are cleared from the
\* registry and the StateManager and handed to run_pipeline
RetryOf(matches, dry_run) ==
    IF matches = << >>
    THEN /\ batch' = Begun("retry_episodes", << >>,
                           [force |-> FALSE, dry_run |-> dry_run, retry |-> FALSE,
                            use_cache |-> TRUE],
                           << >>, [id \in BatchIds |-> ""])
         /\ UNCHANGED << registry, processed >>
    ELSE /\ \E file \in clear_not_found_matching(registry.file, matches).files :
              registry' = [registry EXCEPT !.file = file]
         /\ processed' = [id \in BatchIds |->
                             IF id \in Range(matches) THEN "none" ELSE processed[id]]
         /\ batch' = Begun("retry_episodes", matches,
                           [force |-> FALSE, dry_run |-> dry_run, retry |-> FALSE,
                            use_cache |-> TRUE],
                           IF dry_run THEN << >> ELSE matches,
                           [id \in BatchIds |-> ""])

\* cmd_retry_episodes (cli.py 164-240) up to the loop of the run_pipeline it
\* calls with force, dry_run and retry_no_transcript all False
CmdRetryEpisodes ==
    /\ batch.queue = << >>
    /\ batch.runs < MaxRuns
    /\ \E search_terms \in TermLists, dry_run \in BOOLEAN :
         RetryOf(RetryMatches(search_terms), dry_run)
    /\ UNCHANGED << scorer, blog, search, fetchVars, guests, store, outputs, laterVars >>

\* fetch_transcript_for_episode called on its own
DirectFetch ==
    /\ batch.queue = << >>
    /\ batch.runs < MaxRuns
    /\ \E id \in BatchIds, use_cache \in BOOLEAN, youtube_url \in BatchUrls :
         /\ fetch_transcript_for_episode(EpisodeOf(id), use_cache, youtube_url, BatchOutcomes)
         /\ batch' = Begun("fetch", << id >>,
                           [force |-> FALSE, dry_run |-> FALSE, retry |-> FALSE,
                            use_cache |-> use_cache],
                           << >>, [i \in BatchIds |-> ""])
    /\ UNCHANGED << scorer, blog, search, fetches, guests, registry, processed, store, outputs, laterVars >>

NextBatch ==
    \/ RunPipeline
    \/ ProcessSingleEpisode
    \/ ProcessEpisodes
    \/ ProcessEpisode
    \/ CmdRetryEpisodes
    \/ DirectFetch

SpecBatch == InitBatch /\ [][NextBatch]_vars

(***************************************************************************)
(* Properties of the cache and the registry under the commands (SpecBatch) *)
(***************************************************************************)
\* C15: over any sequence of run_pipeline, process_episodes, --retry-episodes
\* and fetch_transcript_for_episode calls, with any flags, the cache holds at
\* most one entry per episode id, an entry once written stays as it is, and
\* a transcript is saved only for an episode that has no entry.
C15_OneImmutableEntryPerEpisode ==
    /\ [](\A id \in BatchIds : Cardinality(CachedFor(cache, id)) <= 1)
    /\ [][\A t \in cache : t \in cache']_vars
    /\ [][(fetch' # fetch /\ fetch'.saved # << >>) =>
              CachedFor(cache, fetch'.episode_id) = {}]_vars

\* an episode has its entry, and a later direct call for it with
\* use_cache=False and a URL returned another transcript
C15_Witness ==
    /\ batch.entry = "fetch"
    /\ ~fetch.use_cache
    /\ fetch.outcome = "transcript"
    /\ CachedFor(cache, fetch.episode_id) # {}
    /\ fetch.returned[1] \notin cache

\* C18 as stated: in a run_pipeline or process_episodes run without the retry
\* flag (and without force), an episode whose id the registry held when the
\* run began is not fetched and is reported as having no transcript
C18_RegistryShortCircuits ==
    \A id \in Range(batch.episodes) \ Range(batch.queue) :
        (/\ batch.entry \in { "run_pipeline", "process_episodes" }
         /\ ~batch.retry
         /\ ~batch.force
         /\ ~batch.dry_run
         /\ id \in batch.registered) =>
            /\ id \notin batch.fetched
            /\ batch.status[id] \in { "no_transcript", "not_found" }

\* the step is the loop body of a command for the episode id
StepFor(id) == batch.queue # << >> /\ Head(batch.queue) = id

\* the step is a fetch of a command for the episode that returned None
FetchGaveNone(id) ==
    /\ StepFor(id)
    /\ id \in batch'.fetched
    /\ fetch'.outcome = "none"

\* the step is an explicit retry of the episode: the loop body of a command
\* with the retry flag, or --retry-episodes matching the episode
RetryRequested(id) ==
    \/ StepFor(id) /\ batch.retry
    \/ /\ batch'.runs # batch.runs
       /\ batch'.entry = "retry_episodes"
       /\ id \in Range(batch'.episodes)

\* C19: an id enters the registry exactly in a step where a fetch of a
\* command for the episode returned no transcript: such a step leaves the id
\* registered, and no other step (a transcript found, an exception, a
\* skipped or cached episode, a direct call) adds an id; an id leaves the
\* registry only in a step of an explicit retry of that episode.
C19_RegistryLifecycle ==
    [][\A id \in BatchIds :
          /\ FetchGaveNone(id) => is_not_found(registry'.file, id)
          /\ (~is_not_found(registry.file, id) /\ is_not_found(registry'.file, id)) =>
                 FetchGaveNone(id)
          /\ (is_not_found(registry.file, id) /\ ~is_not_found(registry'.file, id)) =>
                 RetryRequested(id)]_vars

\* a retry of a registered episode found no transcript again (the id was
\* cleared and registered anew), after another episode of the run got its
\* transcript and stayed out of the registry
C19_Witness ==
    /\ batch.entry = "process_episodes"
    /\ batch.retry
    /\ batch.episodes = << 1, 3 >>
    /\ batch.queue = << >>
    /\ batch.registered = { 3 }
    /\ batch.status[1] = "success"
    /\ batch.status[3] = "not_found"
    /\ load_not_found(registry.file) = { 3 }

\* the status tags of a PipelineResult (pipeline.py 38)
PipelineTags == { "success", "skipped", "no_transcript", "error" }

\* the command is a run_pipeline call that is not a dry run, made directly or
\* by --retry-episodes
InPipelineRun == batch.entry \in { "run_pipeline", "retry_episodes" } /\ ~batch.dry_run

ResultIds == { batch.results[k][1] : k \in DOMAIN batch.results }

\* C21: in a run_pipeline call that is not a dry run, a step of
\* _process_single_episode that raised (the fetch, summarize_transcript,
\* cache_summary or write_summary) gives the episode an 'error' result and an
\* 'error' state record and leaves the rest of the list to be processed:
\* every input episode has its one result or is still in the loop's list,
\* every result carries one of the four status tags, and when the loop has
\* ended there is exactly one result per input episode.
C21_FailureNeverAbortsBatch ==
    InPipelineRun =>
        /\ \A k \in DOMAIN batch.results : batch.results[k][2] \in PipelineTags
        /\ \A k, m \in DOMAIN batch.results :
               batch.results[k][1] = batch.results[m][1] => k = m
        /\ ResultIds \cup Range(batch.queue) = Range(batch.episodes)
        /\ ResultIds \cap Range(batch.queue) = {}
        /\ batch.queue = << >> => Len(batch.results) = Len(batch.episodes)
        /\ \A k \in DOMAIN batch.results :
               batch.results[k][2] = "error" =>
                   /\ processed[batch.results[k][1]] = "error"
                   /\ batch.results[k][1] \in batch.fetched
        /\ batch.raised # "" =>
               /\ batch.results[Len(batch.results)][2] = "error"
               /\ batch.status[batch.results[Len(batch.results)][1]] = "error"

\* the first episode of a run failed in write_summary, and the second was
\* processed after it and summarized
C21_Witness ==
    /\ batch.entry = "run_pipeline"
    /\ ~batch.dry_run
    /\ batch.queue = << >>
    /\ batch.results = << << 1, "error" >>, << 3, "success" >> >>
    /\ processed[1] = "error"
    /\ 1 \in outputs.summaries /\ 1 \notin outputs.files
    /\ batch.summarized = { 1, 3 }

\* the result of the episode id in the list the command returns, "" for none
ResultOf(id) ==
    IF id \in ResultIds
    THEN batch.results[CHOOSE k \in DOMAIN batch.results : batch.results[k][1] = id][2]
    ELSE ""

\* C26: in a run_pipeline call without force, an episode whose state record
\* was 'success' when the call began has a 'skipped' result, is not fetched
\* or summarized and keeps its record, and one whose record was
\* 'no_transcript' has a 'no_transcript' result and is not fetched unless
\* retry_no_transcript is set; every other episode of the call (any episode
\* with force, a 'no_transcript' one with retry_no_transcript, one with an
\* 'error' record or none) is in the list the loop processes and is fetched
\* in a run that is not a dry run.
C26_StateAvoidsReprocessing ==
    \A id \in Range(batch.episodes) :
        batch.entry = "run_pipeline" =>
            IF ~batch.force /\ batch.records[id] = "success"
            THEN /\ ResultOf(id) = "skipped"
                 /\ id \notin batch.fetched \cup batch.summarized \cup Range(batch.queue)
                 /\ processed[id] = "success"
            ELSE IF ~batch.force /\ batch.records[id] = "no_transcript" /\ ~batch.retry
            THEN /\ ResultOf(id) = "no_transcript"
                 /\ id \notin batch.fetched \cup batch.summarized \cup Range(batch.queue)
                 /\ processed[id] = "no_transcript"
            ELSE /\ ResultOf(id) # "skipped"
                 /\ ~batch.dry_run => (id \in Range(batch.queue)) # (id \in batch.fetched)
                 /\ (~batch.dry_run /\ batch.queue = << >>) =>
                        id \in batch.fetched /\ ResultOf(id) \in PipelineTags

\* a finished run without force over a summarized episode and one recorded as
\* having no transcript skipped both, and an earlier run with force had
\* processed the summarized one again
C26_Witness ==
    /\ batch.entry = "run_pipeline"
    /\ ~batch.force /\ ~batch.retry /\ ~batch.dry_run
    /\ batch.records = (1 :> "success" @@ 3 :> "no_transcript")
    /\ batch.results = << << 1, "skipped" >>, << 3, "no_transcript" >> >>
    /\ batch.fetched = {}

\* C27: every step of a run_pipeline call with dry_run=True (the call itself
\* and whatever it would do after its first pass) leaves the state records,
\* the not-found registry, the transcript cache, the summary cache and the
\* markdown outputs as they were, and calls neither
\* fetch_transcript_for_episode nor summarize_transcript.
C27_DryRunChangesNothing ==
    [][(batch'.entry = "run_pipeline" /\ batch'.dry_run /\ batch' # batch) =>
           /\ processed' = processed
           /\ registry' = registry
           /\ cache' = cache
           /\ outputs' = outputs
           /\ fetch' = fetch
           /\ batch'.fetched = {}
           /\ batch'.summarized = {}]_vars

\* a dry run with force over two episodes, one of them summarized before and
\* the other in the registry: both would be processed, nothing was
C27_Witness ==
    /\ batch.entry = "run_pipeline"
    /\ batch.dry_run /\ batch.force
    /\ batch.episodes = << 1, 3 >>
    /\ batch.results = << >>
    /\ batch.fetched = {}
    /\ processed = (1 :> "success" @@ 3 :> "no_transcript")
    /\ load_not_found(registry.file) = { 3 }
    /\ outputs.files = { 1 }
    /\ cache # {}

\* C28 as stated: after run_pipeline and process_episodes runs alone, with
\* any flags, no id of the not-found registry has a cached transcript or a
\* 'success' state record
C28_RegistryDisjointFromStores ==
    batch.entries \subseteq { "run_pipeline", "process_episodes" } =>
        \A id \in BatchIds :
            is_not_found(registry.file, id) =>
                CachedFor(cache, id) = {} /\ processed[id] # "success"

\* C22 as stated: whatever a provider does when its source is unavailable
\* (here: an article source without the transcript, a search that fails or
\* finds nothing, a rejected match, a video without captions), no call of
\* fetch_transcript_for_episode ends with an exception and no episode of a
\* run_pipeline call gets an 'error' result from its fetch
C22_UnavailableSourceGivesNoTranscript ==
    /\ fetch.outcome # "raised"
    /\ batch.raised # "fetch"

(***************************************************************************)
(* SpecCache: Transcript.save_to_cache and Transcript.load_from_cache on    *)
(* a cache directory of JSON files (youtube.py 204-259).  A confidence is   *)
(* written in hundredths.                                                    *)
(***************************************************************************)
\* the number of save_to_cache calls of a behaviour
MaxSaves == 2

SomeSegments == << [text |-> "hello", start |-> 0, duration |-> 2] >>

\* the Transcripts handed to save_to_cache
Transcripts ==
    { [episode_id |-> 7, video_id |-> "aaa", video_url |-> "https://youtu.be/aaa",
       text |-> "hello", segments |-> SomeSegments, confidence |-> 100, match_reason |-> ""],
      [episode_id |-> 7, video_id |-> "aaa", video_url |-> "https://youtu.be/aaa",
       text |-> "hello again", segments |-> << >>, confidence |-> 80,
       match_reason |-> "Guest found"],
      [episode_id |-> 7, video_id |-> "zzz", video_url |-> "https://youtu.be/zzz",
       text |-> "", segments |-> << >>, confidence |-> 55, match_reason |-> "Title similar"],
      [episode_id |-> 17, video_id |-> "aaa", video_url |-> "https://youtu.be/aaa",
       text |-> "seventeen", segments |-> SomeSegments, confidence |-> 100,
       match_reason |-> ""] }

\* the keys save_to_cache writes; files of earlier versions lack the last two
AllKeys == { "episode_id", "video_id", "video_url", "text", "segments", "confidence",
             "match_reason" }

OldKeys == AllKeys \ { "confidence", "match_reason" }

\* the data dict of save_to_cache, as the JSON object it is dumped to
DataOf(transcript) ==
    [keys |-> AllKeys, episode_id |-> transcript.episode_id,
     video_id |-> transcript.video_id, video_url |-> transcript.video_url,
     text |-> transcript.text, segments |-> transcript.segments,
     confidence |-> transcript.confidence, match_reason |-> transcript.match_reason]

\* f"{self.episode_id}_{self.video_id}.json"
CacheFileName(transcript) ==
    ToString(transcript.episode_id) \o "_" \o transcript.video_id \o ".json"

\* the directory after open(cache_file, 'w') and json.dump(data, f)
WriteFile(dir, name, data) ==
    { f \in dir : f.name # name } \cup { [name |-> name, data |-> data] }

\* the files cache_dir.glob(f"{episode_id}_*.json") yields
Globbed(dir, episode_id) ==
    { f \in dir :
        /\ StartsAt(f.name, 1, ToString(episode_id) \o "_")
        /\ Len(f.name) >= Len(ToString(episode_id)) + 6
        /\ Tail2(f.name, Len(f.name) - 4) = ".json" }

\* cls(...) of load_from_cache, with the defaults for the keys a file lacks
TranscriptOf(data) ==
    [episode_id |-> data.episode_id, video_id |-> data.video_id,
     video_url |-> data.video_url, text |-> data.text, segments |-> data.segments,
     confidence |-> IF "confidence" \in data.keys THEN data.confidence ELSE 100,
     match_reason |-> IF "match_reason" \in data.keys THEN data.match_reason ELSE ""]

\* the results load_from_cache can return: the transcript of the file the
\* glob yields first (the directory's order decides), None without a file
load_from_cache(dir, episode_id) ==
    IF Globbed(dir, episode_id) = {} THEN { << >> }
    ELSE { << TranscriptOf(f.data) >> : f \in Globbed(dir, episode_id) }

\* a file an earlier version wrote, without confidence and match_reason
OldFile(transcript) ==
    [name |-> CacheFileName(transcript),
     data |-> [DataOf(transcript) EXCEPT !.keys = OldKeys, !.confidence = 0,
                                         !.match_reason = ""]]

\* the directory before the first call: empty, or files of earlier runs
PriorDirs ==
    { {} } \cup { { OldFile(t) } : t \in Transcripts }
           \cup { { [name |-> CacheFileName(t), data |-> DataOf(t)] } : t \in Transcripts }

InitCache ==
    /\ scorer = ScorerIdle /\ blog = BlogIdle /\ search = SearchIdle
    /\ FetchIdle
    /\ guests = GuestsIdle
    /\ registry = RegistryIdle
    /\ processed = [id \in BatchIds |-> "none"]
    /\ batch = BatchIdle
    /\ outputs = OutputsIdle
    /\ LaterIdle
    /\ \E dir \in PriorDirs : store = [StoreEmpty EXCEPT !.dir = dir]

SaveToCache ==
    /\ store.saves < MaxSaves
    /\ \E transcript \in Transcripts :
         store' = [store EXCEPT
                     !.dir = WriteFile(store.dir, CacheFileName(transcript), DataOf(transcript)),
                     !.op = "save", !.given = << transcript >>, !.asked = 0,
                     !.loaded = << >>, !.saves = store.saves + 1]
    /\ UNCHANGED << scorer, blog, search, fetchVars, guests, registry, processed, batch, outputs, laterVars >>

LoadFromCache ==
    /\ \E episode_id \in { 1, 7, 17 } :
         \E transcript \in load_from_cache(store.dir, episode_id) :
           store' = [store EXCEPT !.op = "load", !.asked = episode_id,
                                  !.loaded = transcript]
    /\ UNCHANGED << scorer, blog, search, fetchVars, guests, registry, processed, batch, outputs, laterVars >>

NextCache == SaveToCache \/ LoadFromCache

SpecCache == InitCache /\ [][NextCache]_vars

\* C16 as stated: whatever the cache held before, load_from_cache(t.episode_id)
\* after t.save_to_cache() returns a transcript equal to t in every field
C16_SaveLoadRoundTrip ==
    (/\ store.op = "load"
     /\ store.given # << >>
     /\ store.asked = store.given[1].episode_id) =>
        store.loaded = store.given

(***************************************************************************)
(* SpecGuests: extract_guest_names and build_search_query on drawn titles  *)
(***************************************************************************)
\* titles put together from a leading part, a joint and a rest
PlainTitles ==
    { [title |-> lead \o joint \o rest, shape |-> "plain", name |-> ""] :
        lead  \in { "", "Sam Altman", "Weekly Update", "Sam Altman & Greg Brockman",
                    "The Beatles, Sam Altman" },
        joint \in { ": ", " - ", " on ", " " },
        rest  \in { "Building AI", "a chat with Bret Taylor", "life with The Beatles",
                    "Sierra CEO Bret Taylor", "Acme President The Boss", "markets" } }

\* titles of the form "#<number> - <First> <Last> on <topic> | <Suffix>"
NumberedOnTitles ==
    { [title |-> "#" \o number \o " - " \o first \o " " \o last \o " on " \o topic
                     \o " | " \o suffix,
       shape |-> "numbered_on", name |-> first \o " " \o last] :
        number \in { "45", "7" }, first \in { "Sam", "Bret" }, last \in { "Altman", "Taylor" },
        topic \in { "the Future of AI", "Markets" }, suffix \in { "TechPod", "Deep Talks" } }

TitlePool == PlainTitles \cup NumberedOnTitles

InitGuests ==
    /\ scorer = ScorerIdle
    /\ blog = BlogIdle
    /\ search = SearchIdle
    /\ FetchIdle
    /\ StoreIdle
    /\ \E t \in TitlePool :
         guests = [GuestsIdle EXCEPT !.phase = "given", !.title = t.title,
                                     !.shape = t.shape, !.name = t.name]

\* extract_guest_names(episode.title), as find_best_match and validate_match call it
ExtractGuestNames ==
    /\ guests.phase = "given"
    /\ guests' = [guests EXCEPT !.phase = "extracted",
                                !.names = extract_guest_names(guests.title)]
    /\ UNCHANGED << scorer, blog, search, fetchVars, storeVars >>

\* build_search_query(episode, variant) for an episode of the podcast "TechPod"
BuildSearchQuery ==
    /\ guests.phase = "extracted"
    /\ \E i \in 1..Len(Variants) :
         guests' = [guests EXCEPT
                      !.phase = "queried",
                      !.cleaned = CleanTitle(guests.title),
                      !.guest_names = QueryGuestNames(CleanTitle(guests.title)),
                      !.variant = Variants[i],
                      !.query = build_search_query(
                                    [title |-> guests.title, podcast_name |-> "TechPod"],
                                    Variants[i])]
    /\ UNCHANGED << scorer, blog, search, fetchVars, storeVars >>

NextGuests == ExtractGuestNames \/ BuildSearchQuery

SpecGuests == InitGuests /\ [][NextGuests]_vars

(***************************************************************************)
(* Properties of guest-name extraction (SpecGuests)                        *)
(***************************************************************************)
\* the heuristics in the order extract_guest_names tries them
Heuristics == << "start", "role", "with", "on" >>

\* the pattern of heuristic h matches the title
PatternMatches(title, h) ==
    CASE h = "start" -> StartMatchNames(title) # ""
      [] h = "role"  -> RoleMatch(title)[1]
      [] h = "with"  -> WithMatch(title)[1]
      [] h = "on"    -> OnMatchName(title) # ""

\* the names heuristic h collects from a title its pattern matches
NamesOf(title, h) ==
    CASE h = "start" -> StartMatchGuests(title)
      [] h = "role"  -> IF is_likely_name(Strip(RoleMatch(title)[2]))
                        THEN << Strip(RoleMatch(title)[2]) >> ELSE << >>
      [] h = "with"  -> IF is_likely_name(Strip(WithMatch(title)[2]))
                        THEN << Strip(WithMatch(title)[2]) >> ELSE << >>
      [] h = "on"    -> IF Len(Split(Strip(OnMatchName(title)))) >= 2
                        THEN << Strip(OnMatchName(title)) >> ELSE << >>

\* heuristic h reaches a return statement: "start" and "role" return only
\* with a name, "with" and "on" return whenever their pattern matches
Returns(title, h) ==
    /\ PatternMatches(title, h)
    /\ h \in { "start", "role" } => NamesOf(title, h) # << >>

\* the names of the first heuristic k with wins[k], << >> without one
NamesOfFirst(title, wins) ==
    IF \E k \in 1..Len(Heuristics) : wins[k]
    THEN NamesOf(title, Heuristics[CHOOSE k \in 1..Len(Heuristics) :
                                       wins[k] /\ \A j \in 1..(k - 1) : ~wins[j]])
    ELSE << >>

Extracted == guests.phase \in { "extracted", "queried" }

\* C11 as stated: the names are those of the first heuristic whose pattern
\* matches the title, whether or not that heuristic found a name.
C11_FirstMatchingPatternWins ==
    Extracted => guests.names = NamesOfFirst(guests.title,
            [k \in 1..Len(Heuristics) |-> PatternMatches(guests.title, Heuristics[k])])

\* C11: the heuristics are tried in the order leading name list, role keyword,
\* "with Name Name", "Name Name on"; the returned names are those of the first
\* heuristic that returns, where the first two return only when they found a
\* name and the last two return whenever their pattern matches.
C11_FirstReturningHeuristicWins ==
    Extracted => guests.names = NamesOfFirst(guests.title,
            [k \in 1..Len(Heuristics) |-> Returns(guests.title, Heuristics[k])])

\* the leading name list matched without a name and a later heuristic gave one
C11_Witness ==
    /\ Extracted
    /\ PatternMatches(guests.title, "start")
    /\ ~Returns(guests.title, "start")
    /\ guests.names # << >>

\* C12: no returned name has a first token in the stoplist non_name_words.
C12_NoStoplistedFirstToken ==
    Extracted =>
        \A k \in 1..Len(guests.names) :
            ToLower(Split(guests.names[k])[1]) \notin non_name_words

\* C13: for a title "#<number> - <First> <Last> on <topic> | <Suffix>" the
\* cleaned title has neither the number marker nor the suffix, and the
\* extracted guests are exactly the one name "<First> <Last>".
C13_NumberedOnTitleGivesGuest ==
    (guests.phase = "queried" /\ guests.shape = "numbered_on") =>
        /\ ~StartsAt(guests.cleaned, 1, "#")
        /\ ~Contains("|", guests.cleaned)
        /\ StartsAt(guests.cleaned, 1, guests.name \o " on ")
        /\ guests.names = << guests.name >>

\* the names in the query builder's guest_names, one per name of the list
QueriedGuests ==
    IF guests.guest_names = "" THEN << >> ELSE SplitNames(guests.guest_names)

\* C29: for every title, the guest names build_search_query puts into the
\* primary and the guest_focused query are the names extract_guest_names
\* returns for the title: both none, or the same names
C29_QueryAndScorerAgreeOnGuests ==
    (guests.phase = "queried" /\ guests.variant \in { "primary", "guest_focused" })
        => QueriedGuests = guests.names

(***************************************************************************)
(* SpecArchive: the Stratechery provider (stratechery.py 191-414) with its  *)
(* archive crawl and the module-level _cached_posts, and the JP Morgan      *)
(* article fetch (jpmorgan.py 76-185), one HTTP request per step.  A        *)
(* response is its status code and body; status 0 stands for a session.get  *)
(* that raised a requests.RequestException.                                 *)
(***************************************************************************)
\* the provider calls of a process run
MaxCalls == 2

\* max_pages of the crawl (stratechery.py 386 passes 20)
MaxPages == 2

ArchiveEpisodes == { e \in BlogEpisodes : e.id \in { 4, 7 } }

\* the h2 links of an archive page: a title and an href
Articles ==
    { [title |-> "An Interview with Anduril Co-Founder and CEO Brian Schimpf About Paradigm Shifts",
       url |-> "https://stratechery.com/2025/anduril/"],
      [title |-> "Sharp Text", url |-> "https://sharptech.fm/text/"] }

\* the archive pages a request gets: without links, with one link
PageBodies == { << >> } \cup { << a >> : a \in Articles }

CrawlResponses ==
    { [status |-> 0, body |-> << >>], [status |-> 404, body |-> << >>],
      [status |-> 429, body |-> << >>] }
        \cup { [status |-> 200, body |-> b] : b \in PageBodies }

\* an article page: the text extracted from it, "" when nothing is extracted
ArticleResponses ==
    { [status |-> 0, body |-> ""], [status |-> 404, body |-> ""],
      [status |-> 429, body |-> ""], [status |-> 500, body |-> ""],
      [status |-> 200, body |-> ""], [status |-> 200, body |-> "article text"] }

\* a fetch that retries after every 429 of the first two responses
RetriesAfter_EachTooMany(attempt, response) == attempt <= 2 /\ response.status = 429

\* `if response.status_code == 429:` stands after the first get only
\* (stratechery.py 211-215, 310-314, jpmorgan.py 88-92)
RetriesAfter(attempt, response) == attempt = 1 /\ response.status = 429

\* the try block after the response to the request number attempt of a page
\* fetch: time.sleep(2) and a second get, or raise_for_status (jpmorgan.py
\* returns None on 404 before it); a RequestException ends the fetch
AfterResponse(attempt, response) ==
    IF response.status = 0 THEN "failed"
    ELSE IF RetriesAfter(attempt, response) THEN "retry"
    ELSE IF response.status >= 400 THEN "failed"
    ELSE "ok"

\* the number of the request a page fetch sends next
Attempt(get) == IF get.state = "retry" THEN Len(get.statuses) + 1 ELSE 1

\* the page fetch after the response to its next request
Got(get, response) ==
    [statuses |-> IF get.state = "retry" THEN Append(get.statuses, response.status)
                  ELSE << response.status >>,
     sleeps |-> (IF get.state = "retry" THEN get.sleeps ELSE 0)
                    + (IF AfterResponse(Attempt(get), response) = "retry" THEN 1 ELSE 0),
     state |-> AfterResponse(Attempt(get), response)]

\* stratechery.py 226-235: the links to stratechery.com become posts
PostsOf(body) ==
    LET Kept(a) == Contains("stratechery.com", a.url) IN SelectSeq(body, Kept)

\* find_matching_post with its default thresholds (stratechery.py 393), once
\* for each episode and post list
ArchiveLists == UNION { [1..k -> { a \in Articles : Contains("stratechery.com", a.url) }] : k \in 0..(MaxPages + 1) }

ArchiveMatch ==
    Table([id \in { e.id : e \in ArchiveEpisodes }, posts \in ArchiveLists |->
              find_matching_post(CHOOSE e \in ArchiveEpisodes : e.id = id, posts,
                                 << 2, 5 >>, << 3, 10 >>)])

\* a provider that crawls again when the cached list is empty
NeedsCrawl_WhenEmpty(cached_posts) == cached_posts = << >> \/ cached_posts = << << >> >>

\* stratechery.py 383: `if _cached_posts is None`
NeedsCrawl(cached_posts) == cached_posts = << >>

\* the call returns
Returned(a, result) == [a EXCEPT !.pc = "idle", !.result = result]

\* stratechery.py 388-397: the call with the post list, up to the article fetch
AfterPosts(a, posts) ==
    IF posts = << >> THEN Returned([a EXCEPT !.used = << posts >>], << >>)
    ELSE IF ArchiveMatch[a.episode_id, posts] = << >>
    THEN Returned([a EXCEPT !.used = << posts >>], << >>)
    ELSE [a EXCEPT !.used = << posts >>, !.match = ArchiveMatch[a.episode_id, posts],
                   !.url = ArchiveMatch[a.episode_id, posts][1].url,
                   !.pc = "article", !.sent = 0]

\* the provider call begins
BeganCall(op, episode_id, session) ==
    [archive EXCEPT !.op = op, !.episode_id = episode_id, !.session = session,
                    !.calls = archive.calls + 1,
                    !.sessions = archive.sessions + (IF session THEN 1 ELSE 0),
                    !.page = 0, !.posts = << >>, !.sent = 0, !.get = NoGet,
                    !.used = << >>, !.match = << >>, !.url = "", !.result = << >>]

\* fetch_stratechery_transcript up to its first request (stratechery.py 365-393)
FetchStratecheryTranscript ==
    /\ archive.pc = "idle"
    /\ archive.calls < MaxCalls
    /\ \E episode \in ArchiveEpisodes, session \in BOOLEAN :
         archive' =
             IF ~session
             THEN Returned(BeganCall("stratechery", episode.id, session), << >>)
             ELSE IF NeedsCrawl(archive.cached_posts)
             THEN [BeganCall("stratechery", episode.id, session) EXCEPT
                       !.pc = "crawl", !.page = 1, !.crawls = archive.crawls + 1]
             ELSE AfterPosts(BeganCall("stratechery", episode.id, session),
                             archive.cached_posts[1])
    /\ UNCHANGED << scorer, blog, search, fetchVars, guests, registry, processed, batch,
                    store, outputs, afterVars >>

\* the crawl has ended with posts: they are cached and matched
EndCrawl(a, posts) == AfterPosts([a EXCEPT !.cached_posts = << posts >>, !.posts = posts], posts)

\* stratechery.py 220-237: the page was fetched
AfterPage(a, body) ==
    IF body = << >> \/ a.page = MaxPages THEN EndCrawl(a, a.posts \o PostsOf(body))
    ELSE [a EXCEPT !.posts = a.posts \o PostsOf(body), !.page = a.page + 1]

\* the crawl after the page fetch got its response
AfterCrawlGet(a, response) ==
    IF a.get.state = "retry" THEN a
    ELSE IF a.get.state = "failed" THEN EndCrawl(a, a.posts)
    ELSE AfterPage(a, response.body)

\* one request of search_stratechery_posts (stratechery.py 204-239)
CrawlGet ==
    /\ archive.pc = "crawl"
    /\ \E response \in CrawlResponses :
         archive' = AfterCrawlGet([archive EXCEPT !.get = Got(archive.get, response),
                                                  !.sent = archive.sent + 1],
                                  response)
    /\ UNCHANGED << scorer, blog, search, fetchVars, guests, registry, processed, batch,
                    store, outputs, afterVars >>

\* the Transcript of an article; video_id (the slug of the URL), the segments
\* and the defaults are left out
ArticleText(a, text) == [episode_id |-> a.episode_id, video_url |-> a.url, text |-> text]

\* extract_article_text has its response, and the call returns
\* (stratechery.py 316-357, 399-414; jpmorgan.py 94-150, 167-185)
AfterArticleGet(a, response) ==
    IF a.get.state = "retry" THEN a
    ELSE IF a.get.state = "failed" \/ response.body = "" THEN Returned(a, << >>)
    ELSE Returned(a, << ArticleText(a, response.body) >>)

\* one request of extract_article_text (stratechery.py 309-317)
ArticleGet ==
    /\ archive.pc = "article"
    /\ \E response \in ArticleResponses :
         archive' = AfterArticleGet([archive EXCEPT !.get = Got(archive.get, response),
                                                    !.sent = archive.sent + 1],
                                    response)
    /\ UNCHANGED << scorer, blog, search, fetchVars, guests, registry, processed, batch,
                    store, outputs, afterVars >>

\* fetch_jpmorgan_transcript up to its first request (jpmorgan.py 154-164)
FetchJpmorganTranscript ==
    /\ archive.pc = "idle"
    /\ archive.calls < MaxCalls
    /\ archive' = [BeganCall("jpmorgan", 3, FALSE) EXCEPT
                       !.pc = "jpmorgan", !.url = "jpmorgan-article"]
    /\ UNCHANGED << scorer, blog, search, fetchVars, guests, registry, processed, batch,
                    store, outputs, afterVars >>

\* one request of jpmorgan.py's extract_article_text (jpmorgan.py 87-100)
JpmorganGet ==
    /\ archive.pc = "jpmorgan"
    /\ \E response \in ArticleResponses :
         archive' = AfterArticleGet([archive EXCEPT !.get = Got(archive.get, response),
                                                    !.sent = archive.sent + 1],
                                    response)
    /\ UNCHANGED << scorer, blog, search, fetchVars, guests, registry, processed, batch,
                    store, outputs, afterVars >>

InitArchive ==
    /\ scorer = ScorerIdle /\ blog = BlogIdle /\ search = SearchIdle
    /\ FetchIdle
    /\ guests = GuestsIdle
    /\ StoreIdle

NextArchive ==
    \/ FetchStratecheryTranscript
    \/ CrawlGet
    \/ ArticleGet
    \/ FetchJpmorganTranscript
    \/ JpmorganGet

SpecArchive == InitArchive /\ [][NextArchive]_vars

\* a call under way goes on: each request returns or times out (timeout=30)
\* and the code runs on to its return
SpecArchiveFair == SpecArchive /\ WF_vars(CrawlGet) /\ WF_vars(ArticleGet) /\ WF_vars(JpmorganGet)

(***************************************************************************)
(* Properties of the archive cache and the page fetches (SpecArchive)       *)
(***************************************************************************)
\* C23: search_stratechery_posts runs at most once in a process run; it is
\* started by a fetch_stratechery_transcript call that has a session while
\* nothing is cached, which is the first call with a session; once a list is
\* cached (an empty one too) no step changes it; and every call with a
\* session that got as far as matching matched against the cached list.
C23_ArchiveCrawledOnce ==
    /\ [](archive.crawls <= 1)
    /\ [](archive.sessions >= 1 <=> archive.crawls = 1)
    /\ [][archive'.crawls # archive.crawls =>
              /\ archive.cached_posts = << >>
              /\ archive'.op = "stratechery" /\ archive'.session
              /\ archive.sessions = 0]_vars
    /\ [][archive.cached_posts # << >> => archive'.cached_posts = archive.cached_posts]_vars
    /\ [](archive.used # << >> => archive.used = archive.cached_posts)

\* the first crawl failed at its first request, the empty list was cached,
\* and a later call with a session returned without a request
C23_Witness ==
    /\ archive.cached_posts = << << >> >>
    /\ archive.calls = 2
    /\ archive.sessions = 2
    /\ archive.crawls = 1
    /\ archive.pc = "idle"
    /\ archive.op = "stratechery"
    /\ archive.used = << << >> >>
    /\ archive.sent = 0

\* C24: a page fetch sends one request, and a second one exactly when the
\* first response had status 429, after one sleep; the second response is
\* final (a second 429 fails the fetch, and a fetch is ok only on a status
\* below 400); the crawl sends at most 2 * max_pages requests over at most
\* max_pages pages, and every crawl and article fetch that is under way ends.
C24_AtMostOneRetry ==
    /\ [](/\ Len(archive.get.statuses) <= 2
          /\ archive.get.sleeps = (IF archive.get.statuses # << >>
                                       /\ archive.get.statuses[1] = 429 THEN 1 ELSE 0)
          /\ Len(archive.get.statuses) = 2 => archive.get.statuses[1] = 429
          /\ archive.get.state = "retry" <=> archive.get.statuses = << 429 >>
          /\ archive.get.state = "ok" =>
                 archive.get.statuses[Len(archive.get.statuses)] = 200
          /\ (archive.get.statuses # << >>
                 /\ archive.get.statuses[Len(archive.get.statuses)] # 200
                 /\ archive.get.state # "retry") => archive.get.state = "failed"
          /\ archive.page <= MaxPages
          /\ archive.sent <= 2 * (IF archive.op = "stratechery" /\ archive.pc # "article"
                                     /\ archive.page > 0
                                  THEN archive.page ELSE 1))
    /\ (archive.pc # "idle") ~> (archive.pc = "idle")

\* a crawl of max_pages pages in which every page answered 429 first: it
\* sent 2 * max_pages requests
C24_Witness ==
    /\ archive.op = "stratechery"
    /\ archive.page = MaxPages
    /\ archive.sent = 2 * MaxPages
    /\ archive.get.statuses = << 429, 200 >>
    /\ archive.used # << >>


(***************************************************************************)
(* SpecChunk: chunk_transcript (summarizer.py 317-343) on drawn texts      *)
(***************************************************************************)
\* the longest text drawn, and the largest max_chars
MaxText == 5

MaxChars == 3

\* letters, the sentence ends the code looks for, the blank, and the
\* character the code splits on
ChunkChars == { "a", ".", "?", " ", "|" }

\* the marks that end a sentence when a blank follows
SentenceEnds == { ".", "?", "!" }

RECURSIVE TextsUpTo(_)
TextsUpTo(n) ==
    IF n = 0 THEN { "" }
    ELSE LET shorter == TextsUpTo(n - 1)
         IN  shorter \cup { t \o c : t \in { u \in shorter : Len(u) = n - 1 },
                                     c \in ChunkChars }

\* text.replace('. ', '.|').replace('? ', '?|').replace('! ', '!|'), from
\* position i on: a blank right after a sentence end becomes '|'
RECURSIVE MarkSentences(_, _)
MarkSentences(text, i) ==
    IF i > Len(text) THEN ""
    ELSE (IF Ch(text, i) = " " /\ Ch(text, i - 1) \in SentenceEnds THEN "|"
          ELSE Ch(text, i)) \o MarkSentences(text, i + 1)

\* the position of the first '|' of s, 0 without one
FirstBar(s) ==
    IF \E i \in 1..Len(s) : Ch(s, i) = "|"
    THEN CHOOSE i \in 1..Len(s) :
             Ch(s, i) = "|" /\ \A j \in 1..(i - 1) : Ch(s, j) # "|"
    ELSE 0

\* s.split('|'): the pieces between the bars, empty ones included
RECURSIVE SplitBars(_)
SplitBars(s) ==
    IF FirstBar(s) = 0 THEN << s >>
    ELSE << Prefix(s, FirstBar(s)) >> \o SplitBars(Tail2(s, FirstBar(s) + 1))

Sentences(text) == SplitBars(MarkSentences(text, 1))

\* chunks.append(current_chunk.strip()) under `if current_chunk`
Flushed(chunks, current_chunk) ==
    IF current_chunk # "" THEN Append(chunks, Strip(current_chunk)) ELSE chunks

\* whether the sentence starts a new chunk
Overflows(current_chunk, sentence, max_chars) ==
    Len(current_chunk) + Len(sentence) > max_chars

\* the loop over the sentences from the k-th on, and the append after it
RECURSIVE Chunked(_, _, _, _, _)
Chunked(sentences, k, current_chunk, chunks, max_chars) ==
    IF k > Len(sentences) THEN Flushed(chunks, current_chunk)
    ELSE IF Overflows(current_chunk, sentences[k], max_chars)
         THEN Chunked(sentences, k + 1, sentences[k],
                      Flushed(chunks, current_chunk), max_chars)
         ELSE Chunked(sentences, k + 1, current_chunk \o " " \o sentences[k],
                      chunks, max_chars)

chunk_transcript(text, max_chars) ==
    IF Len(text) <= max_chars THEN << text >>
    ELSE Chunked(Sentences(text), 1, "", << >>, max_chars)

InitChunk ==
    /\ scorer = ScorerIdle /\ blog = BlogIdle /\ search = SearchIdle
    /\ FetchIdle
    /\ guests = GuestsIdle
    /\ FilesIdle
    /\ archive = ArchiveIdle
    /\ job = JobIdle
    /\ \E text \in TextsUpTo(MaxText), max_chars \in 1..MaxChars :
         chunker = [ChunkerIdle EXCEPT !.pc = "given", !.text = text,
                                       !.max_chars = max_chars]

\* chunk_transcript(text, max_chars)
ChunkTranscript ==
    /\ chunker.pc = "given"
    /\ chunker' = [chunker EXCEPT
                     !.pc = "returned",
                     !.chunks = chunk_transcript(chunker.text, chunker.max_chars)]
    /\ UNCHANGED << scorer, blog, search, fetchVars, guests, registry, processed, batch,
                    store, outputs, archive, job >>

NextChunk == ChunkTranscript

SpecChunk == InitChunk /\ [][NextChunk]_vars

(***************************************************************************)
(* Properties of chunk_transcript (SpecChunk)                              *)
(***************************************************************************)
\* C25: every chunk chunk_transcript returns is at most max_chars long, and
\* a text of at most max_chars characters comes back as one unchanged chunk
C25_ChunksAreBounded ==
    chunker.pc = "returned" =>
        /\ \A k \in DOMAIN chunker.chunks : Len(chunker.chunks[k]) <= chunker.max_chars
        /\ Len(chunker.text) <= chunker.max_chars => chunker.chunks = << chunker.text >>

\* the part of C25 about short texts, on its own
ShortTextIsOneChunk ==
    (chunker.pc = "returned" /\ Len(chunker.text) <= chunker.max_chars)
        => chunker.chunks = << chunker.text >>

\* a sentence longer than max_chars is never cut
LongSentenceKept ==
    (chunker.pc = "returned" /\ Len(chunker.text) > chunker.max_chars
        /\ Len(Sentences(chunker.text)) = 1)
        => chunker.chunks = << Strip(chunker.text) >>

(***************************************************************************)
(* SpecJob: a background processing job of the web app.  start_processing  *)
(* (web/routes/processing.py 23-70) starts the worker thread               *)
(* _run_processing (web/services/job_manager.py 41-117), which puts events *)
(* on the job's queue.Queue; every request of stream_progress              *)
(* (processing.py 73-119) runs a generator that takes events off the same  *)
(* queue.  An event is modelled by its 'type'.  The worker's steps and the *)
(* streams' steps interleave freely.                                       *)
(***************************************************************************)
\* the calls of the progress callback in one pipeline run
MaxProgress == 2

\* the keepalives one stream yields
MaxKeepalives == 1

\* the episode_ids of a request's body
RequestIds == { << >>, << "1" >>, << "1", "2" >> }

\* the events the pipeline passes to the progress callback
\* (the docstring of stream_progress lists them)
PipelineEvents == { "episode_start", "progress", "episode_complete" }

otherThanJob == << scorer, blog, search, fetchVars, guests, registry, processed, batch,
                   store, outputs, archive, chunker >>

\* progress_queue.put(event)
Put(j, event) == [j EXCEPT !.queue = Append(j.queue, event), !.put = Append(j.put, event)]

\* an exception in the try block: control goes to the except branch at 107
Raised(j) == [j EXCEPT !.pc = "except", !.failed = TRUE]

\* POST /api/process: 400 without episode ids; else the thread is started
\* and the job is put into _jobs
StartProcessing ==
    /\ job.pc = "none"
    /\ \E episode_ids \in RequestIds :
         job' = IF episode_ids = << >>
                THEN [job EXCEPT !.response = 400]
                ELSE [job EXCEPT !.response = 200, !.pc = "import", !.registered = TRUE,
                                 !.episode_ids = episode_ids]
    /\ UNCHANGED otherThanJob

\* lines 50-52: the imports, which succeed or raise
WorkerImport ==
    /\ job.pc = "import"
    /\ \E raises \in BOOLEAN :
         job' = IF raises THEN Raised(job) ELSE [job EXCEPT !.pc = "start"]
    /\ UNCHANGED otherThanJob

\* lines 55-58: the 'start' event
WorkerStart ==
    /\ job.pc = "start"
    /\ job' = [Put(job, "start") EXCEPT !.pc = "load"]
    /\ UNCHANGED otherThanJob

\* lines 61-70: get_unified_episodes, get_episodes_since and the loop that
\* keeps the Apple episodes; either call may raise
WorkerLoad ==
    /\ job.pc = "load"
    /\ \/ job' = Raised(job)
       \/ \E n \in 0..Len(job.episode_ids) :
            job' = [job EXCEPT !.pc = "loaded", !.to_process = n]
    /\ UNCHANGED otherThanJob

\* lines 73-78: nothing to process
WorkerNothingToProcess ==
    /\ job.pc = "loaded"
    /\ job.to_process = 0
    /\ job' = [Put(job, "complete") EXCEPT !.pc = "returned"]
    /\ UNCHANGED otherThanJob

\* lines 81-82, called from inside the pipeline run of 85-90
OnProgress ==
    /\ job.pc = "loaded"
    /\ job.to_process > 0
    /\ job.calls < MaxProgress
    /\ \E event \in PipelineEvents :
         job' = [Put(job, event) EXCEPT !.calls = job.calls + 1]
    /\ UNCHANGED otherThanJob

\* lines 85-90: the pipeline run returns its results, or raises
WorkerPipelineEnds ==
    /\ job.pc = "loaded"
    /\ job.to_process > 0
    /\ \E raises \in BOOLEAN :
         job' = IF raises THEN Raised(job) ELSE [job EXCEPT !.pc = "results"]
    /\ UNCHANGED otherThanJob

\* lines 93-105: the 'complete' event with the results; building the list
\* may raise before anything is put
WorkerComplete ==
    /\ job.pc = "results"
    /\ \E raises \in BOOLEAN :
         job' = IF raises THEN Raised(job)
                ELSE [Put(job, "complete") EXCEPT !.pc = "returned"]
    /\ UNCHANGED otherThanJob

\* lines 107-113: the 'error' event
WorkerExceptError ==
    /\ job.pc = "except"
    /\ job' = [Put(job, "error") EXCEPT !.pc = "except_complete"]
    /\ UNCHANGED otherThanJob

\* lines 114-117: the 'complete' event after the error
WorkerExceptComplete ==
    /\ job.pc = "except_complete"
    /\ job' = [Put(job, "complete") EXCEPT !.pc = "returned"]
    /\ UNCHANGED otherThanJob

Worker ==
    \/ WorkerImport
    \/ WorkerStart
    \/ WorkerLoad
    \/ WorkerNothingToProcess
    \/ OnProgress
    \/ WorkerPipelineEnds
    \/ WorkerComplete
    \/ WorkerExceptError
    \/ WorkerExceptComplete

Yielded(stream, event) ==
    [state |-> IF event = "complete" THEN "ended" ELSE "open",
     received |-> Append(stream.received, event)]

KeepalivesOf(stream) == Len(SelectSeq(stream.received, LAMBDA e : e = "keepalive"))

\* GET /api/process/stream/<job_id>, lines 86-91: 404 for a job that is not
\* in _jobs, else the response starts generate()
StreamProgress(c) ==
    /\ job.streams[c].state = "none"
    /\ job' = [job EXCEPT !.streams[c].state =
                              IF job.registered THEN "open" ELSE "not_found"]
    /\ UNCHANGED otherThanJob

\* lines 96-105: progress_queue.get returns the head of the queue; the
\* event is yielded, and 'complete' ends the generator
StreamNext(c) ==
    /\ job.streams[c].state = "open"
    /\ job.queue # << >>
    /\ job' = [job EXCEPT !.queue = Tail(job.queue),
                          !.streams[c] = Yielded(job.streams[c], Head(job.queue))]
    /\ UNCHANGED otherThanJob

\* lines 107-109: the queue stayed empty for the 30 seconds of the get
StreamKeepalive(c) ==
    /\ job.streams[c].state = "open"
    /\ job.queue = << >>
    /\ KeepalivesOf(job.streams[c]) < MaxKeepalives
    /\ job' = [job EXCEPT !.streams[c] = Yielded(job.streams[c], "keepalive")]
    /\ UNCHANGED otherThanJob

InitJob ==
    /\ scorer = ScorerIdle /\ blog = BlogIdle /\ search = SearchIdle
    /\ FetchIdle
    /\ guests = GuestsIdle
    /\ FilesIdle
    /\ archive = ArchiveIdle
    /\ chunker = ChunkerIdle
    /\ job = JobIdle

NextJob ==
    \/ StartProcessing
    \/ Worker
    \/ \E c \in Streams : StreamProgress(c)
    \/ \E c \in Streams : StreamNext(c)
    \/ \E c \in Streams : StreamKeepalive(c)

SpecJob == InitJob /\ [][NextJob]_vars

\* the worker thread is scheduled while it has a step to take
SpecJobFair == SpecJob /\ WF_vars(Worker)

(***************************************************************************)
(* Properties of the background job (SpecJob)                              *)
(***************************************************************************)
CountOf(events, type) == Len(SelectSeq(events, LAMBDA e : e = type))

\* the events of a stream without its keepalives
EventsOf(stream) == SelectSeq(stream.received, LAMBDA e : e # "keepalive")

\* the worker's half: at most one 'complete', nothing after it, exactly one
\* once the worker returned, and after a failure 'error' right before it
OneCompleteLast ==
    /\ CountOf(job.put, "complete") <= 1
    /\ \A k \in DOMAIN job.put : job.put[k] = "complete" => k = Len(job.put)
    /\ job.pc = "returned" => CountOf(job.put, "complete") = 1
    /\ (job.pc = "returned" /\ job.failed) =>
           (Len(job.put) >= 2 /\ job.put[Len(job.put) - 1] = "error")
    /\ (job.pc = "returned" /\ ~job.failed) => CountOf(job.put, "error") = 0

\* a stream's half: its events are the queued events in their order, from
\* the first on, and it has ended exactly when it yielded 'complete', last
StreamInOrder(c) ==
    LET stream == job.streams[c]
        events == EventsOf(stream)
    IN  /\ events = SubSeq(job.put, 1, Len(events))
        /\ \A k \in DOMAIN stream.received :
               stream.received[k] = "complete" => k = Len(stream.received)
        /\ stream.state = "ended" <=> CountOf(stream.received, "complete") = 1

\* C30: the worker puts exactly one 'complete' event, as its last event and
\* right after an 'error' event when it failed; and a client streaming the
\* job receives the events in the order they were queued, interleaved only
\* with keepalives, its stream ending right after 'complete'
C30_JobEventsReachTheClient ==
    /\ OneCompleteLast
    /\ \A c \in Streams : StreamInOrder(c)

\* the same for a job that a single stream reads
SoleStreamInOrder ==
    \A c \in Streams :
        (\A d \in Streams \ { c } : job.streams[d].state \in { "none", "not_found" })
            => StreamInOrder(c)

\* the events the streams 1..c yielded
RECURSIVE YieldedUpTo(_)
YieldedUpTo(c) ==
    IF c = 0 THEN 0 ELSE Len(EventsOf(job.streams[c])) + YieldedUpTo(c - 1)

\* every event the worker put is on the queue or was yielded by one stream
NoEventLostOrRepeated == Len(job.put) = Len(job.queue) + YieldedUpTo(MaxStreams)

\* a started worker returns, having put 'complete'
WorkerEventuallyCompletes ==
    (job.pc \notin { "none", "returned" }) ~> (job.pc = "returned")


====
